---- MODULE Spec2Model ----
(***************************************************************************)
(* VideoStreamImpl2 (cpp/src/stream.cpp): the producer-side publisher.     *)
(*                                                                         *)
(* Two threads act on one publisher object:                                *)
(*   - the capture thread runs processImage (one encode cycle per call);   *)
(*   - the face thread runs onLatestMetaRequest / onLiveMetadataRequest.   *)
(* processImage and the callbacks are cut into steps between accesses to   *)
(* the fields both threads touch, so that what a callback can observe of a *)
(* running encode cycle, and the cycle of a callback, is a behaviour of    *)
(* Spec.  SpecFrame runs single encode cycles over all frames and FEC      *)
(* outcomes; SpecFirst runs the first cycle on frames of about 64 KB with  *)
(* the default segment size; SpecRoll runs one GoP of cycles and the key   *)
(* frame after it; SpecFresh is Spec over frame rates and GoP lengths;     *)
(* SpecSigner is the capture thread with a keychain that can fail, and     *)
(* SpecReply both threads with a callback that can fail; SpecMutex cuts    *)
(* the two threads at every access of queued_ and of internalMutex_;       *)
(* SpecClock runs the capture thread across second boundaries, SpecPit     *)
(* with pending interests for the frame metas.                             *)
(* SpecLife is Spec followed by the destruction of the publisher and the   *)
(* interests that arrive afterwards.  SpecConsumer is the Consumer of      *)
(* cpp/src/consumer.cpp from its construction to its destruction.          *)
(*                                                                         *)
(* Names are sequences of components <<tag, number>>; a literal component  *)
(* carries number 0.  Packets are records.  Byte strings are sequences.    *)
(***************************************************************************)
EXTENDS Integers, Sequences, FiniteSets, TLC

VARIABLES
    settings,               \* settings_ (useFec_, segmentSize_, memCache_, storeInMemCache_, fps_, gop_)
    frameSeq, gopPos, gopSeq,
    lastFramePrefix, lastGopPrefix,
    lastPublishEpochMs,
    lastCycleMonotonicNs, thisCycleMonotonicNs,
    liveMetadata,
    queued,                 \* queued_
    pc,                     \* position of the capture thread inside processImage
    packets,                \* processImage's local vector `packets`
    frame,                  \* the EncodedFrame handed to the encoded callback (or NoFrame)
    framePrefix,            \* the encoded callback's local `framePrefix`
    fpc,                    \* position of the face thread inside a reactive callback
    fd,                     \* the reactive callback's packet `d` while it is being built
    clock,                  \* last value the clocks returned
    nReq,                   \* number of reactive requests served so far
    fstart,                 \* history: where the capture thread stood when the callback began
    returned,               \* history: one record per completed processImage call
    wire,                   \* history: packets passed to face.putData
    cache,                  \* history: packets passed to memCache_->add
    enqueued,               \* history: packets pushed onto queued_, in push order
    fecFailed,              \* history: the FEC encoder failed in the last call begun
    raised,                 \* history: number of processImage calls ended by an exception
    internalMutex,          \* internalMutex_: the thread that holds it, or "free"
    faceRaised,             \* history: number of exceptions that left a reactive callback
    pis,                    \* history: the pending interests the cache reported to the last
                            \* generateFrameMeta call, as their timeout-period starts
    filters,                \* the interest filters of memCache_ that are bound to this publisher
    destroyed,              \* ~VideoStreamImpl2 has run
    staleCalls,             \* history: number of callbacks the cache invoked after that
    consumer,               \* the Consumer: "constructed", "ready" (after init) or "destroyed"
    isConsuming,            \* Consumer::isConsuming_
    pipelinerStarted,       \* pipeliner_->start() has been called, pipeliner_->stop() not since
    playoutRunning,         \* playout_->isRunning()
    rendering,              \* renderer_->isRendering()
    calls,                  \* history: number of Consumer::start and Consumer::stop calls
    stopRuns                \* history: number of times Consumer::stop has run

publisherVars == <<settings, frameSeq, gopPos, gopSeq, lastFramePrefix, lastGopPrefix,
          lastPublishEpochMs, lastCycleMonotonicNs, thisCycleMonotonicNs,
          liveMetadata, queued, pc, packets, frame, framePrefix, fpc, fd,
          clock, nReq, fstart, returned, wire, cache, enqueued, fecFailed, raised,
          internalMutex, faceRaised, pis, filters, destroyed, staleCalls>>

consumerVars == <<consumer, isConsuming, pipelinerStarted, playoutRunning, rendering,
                  calls, stopRuns>>

vars == <<publisherVars, consumerVars>>

captureVars == <<frameSeq, gopPos, gopSeq, lastFramePrefix, lastGopPrefix,
                 lastPublishEpochMs, lastCycleMonotonicNs, thisCycleMonotonicNs,
                 liveMetadata, pc, packets, frame, framePrefix, clock, returned, cache,
                 fecFailed, raised, pis>>

faceVars == <<fpc, fd, nReq, fstart, wire, faceRaised>>

settingsVars == <<settings>>

lifeVars == <<filters, destroyed, staleCalls>>

-----------------------------------------------------------------------------
(* Bounds of the model *)

MaxOps == 3             \* processImage calls plus reactive requests per behaviour of Spec
MaxFrameLen == 6        \* longest encoded frame of SpecFrame, in bytes
MaxSegSize == 2         \* largest segmentSize_ of SpecFrame, in bytes
MaxCalls == 4           \* Consumer::start and Consumer::stop calls per behaviour of SpecConsumer

\* clock advances between two encode cycles
Ticks == {0, 1}

\* values of the bytes of an encoded frame (0 is the padding byte)
Byte == {1, 2}

\* values an uninitialized uint64_t member may hold
Uninit == {0, 9}

-----------------------------------------------------------------------------
(* Program constants *)

DigestSize == 32

\* defaultSettings(): s.segmentSize_ = 8000
DefaultSegmentSize == 8000

\* (uint64_t)-1, written in its two's-complement reading
SeqSentinel == 0 - 1

MetaFreshness == 4000

\* nanoseconds in a second: the 1E9 of generateFrameMeta
NsPerSec == 1000000000

-----------------------------------------------------------------------------
(* Names *)

Lit(s) == <<s, 0>>
SeqNo(n) == <<"seq", n>>
Segment(n) == <<"seg", n>>
Timestamp(t) == <<"ts", t>>

\* Name::getPrefix(-1): the name without its last component
GetPrefix1(name) == SubSeq(name, 1, Len(name) - 1)

\* getPrefix(): basePrefix_ / timestamp_ / streamName_ ; timestamp_ is the
\* construction time, 0 in the model
StreamPrefix == <<Lit("base"), Timestamp(0), Lit("stream")>>

EmptyName == <<>>

-----------------------------------------------------------------------------
(* Packets *)

NoMeta == [capture |-> <<0, 0>>, paritySize |-> 0, gopNumber |-> 0, gopPosition |-> 0,
           type |-> "", genDelay |-> 0, ts |-> 0]

NoLive == [rate |-> <<>>, deltaData |-> <<>>, deltaParity |-> <<>>,
           keyData |-> <<>>, keyParity |-> <<>>]

NoFbi == 0 - 2

Data(kind, name) ==
    [kind |-> kind, name |-> name, fresh |-> 0, fbi |-> NoFbi, content |-> <<>>,
     deleg |-> <<>>, meta |-> NoMeta, live |-> NoLive, sig |-> <<>>, id |-> 0]

\* VideoStreamImpl2::sign: phony = digest-only signature, else the keychain
SignKinds(phony) == IF phony THEN "digest" ELSE "keychain"

Sign(d, phony) == [d EXCEPT !.sig = Append(@, SignKinds(phony))]

-----------------------------------------------------------------------------
(* The freshness plan, computed once in the constructor *)

\* freshness_ : uint32_t fields (the settings of the model keep gop_ * sample_
\* far below 2^32, so the product is exact)
Freshness(st) ==
    LET sample == 1000 \div st.fps
        gop == st.gop * sample
    IN [sample |-> sample, keySample |-> gop, gop |-> gop,
        latest |-> sample, live |-> gop, meta |-> MetaFreshness]

\* uint16_t sampleFreshness = (Key ? keySample_ : sample_)
SampleFreshness(st, type) ==
    (IF type = "Key" THEN Freshness(st).keySample ELSE Freshness(st).sample) % 65536

-----------------------------------------------------------------------------
(* publishFrameGobj: slicing of one encoded frame *)

\* the quotient alone, which leaves out a short last segment
NDataSegmentsFloor(length, S) == length \div S

\* frame.length_ / S + (frame.length_ % S ? 1 : 0)
NDataSegments(length, S) == (length \div S) + (IF length % S # 0 THEN 1 ELSE 0)

\* a ratio rounded down instead of up
FloorParityRatio(nData) == nData \div 5

\* ceil(PARITY_RATIO * nDataSegments).  PARITY_RATIO is the double nearest to
\* 0.2, which exceeds 1/5 by 2^-54/5; the product with n < 2^50 rounds to the
\* double nearest n/5 from above, never past the next integer, so the ceiling
\* is that of n/5.
CeilParityRatio(nData) == (nData + 4) \div 5

\* if (n == 0) n = 1;  n *= settings_.useFec_;
NParitySegments(nData, useFec) ==
    LET c == CeilParityRatio(nData)
    IN (IF c = 0 THEN 1 ELSE c) * (IF useFec THEN 1 ELSE 0)

\* the remainder of the division, which is 0 for a full last segment
LastSegSizeRemainder(length, S) == length % S

\* frame.length_ - S * (nDataSegments - 1)
LastSegSize(length, S) == length - S * (NDataSegments(length, S) - 1)

\* d->setContent(slice, size) with slice = frame.data_ + seg * S
DataSlice(data, seg, S) ==
    LET n == NDataSegments(Len(data), S)
        size == IF seg = n - 1 THEN LastSegSize(Len(data), S) ELSE S
    IN SubSeq(data, seg * S + 1, seg * S + size)

DataSegment(frameName, fr, seg, st) ==
    LET n == NDataSegments(Len(fr.data), st.segmentSize)
        d0 == Data("data", Append(frameName, Segment(seg)))
        d1 == [d0 EXCEPT !.fresh = SampleFreshness(st, fr.type),
                         !.fbi = n - 1,
                         !.content = DataSlice(fr.data, seg, st.segmentSize)]
    IN Sign(d1, TRUE)

DataSegments(frameName, fr, st) ==
    [i \in 1..NDataSegments(Len(fr.data), st.segmentSize) |->
        DataSegment(frameName, fr, i - 1, st)]

\* paddedData: the frame followed by zeros up to nDataSegments * S bytes
PaddedData(data, S) ==
    LET length == Len(data)
    IN [i \in 1..(NDataSegments(length, S) * S) |->
            IF i <= length THEN data[i] ELSE 0]

RECURSIVE ColumnSum(_, _, _, _)
ColumnSum(padded, col, S, k) ==
    IF k = 0 THEN 0 ELSE padded[(k - 1) * S + col] + ColumnSum(padded, col, S, k - 1)

\* fec::Rs28Encoder::encode, a systematic code: every parity byte is a function
\* of the bytes of the same column of the padded data segments
Rs28Encode(padded, nData, nParity, S) ==
    [i \in 1..(nParity * S) |->
        (ColumnSum(padded, ((i - 1) % S) + 1, S, nData) + ((i - 1) \div S) + 1) % 256]

\* generateFecData: the parity bytes, or an empty vector when the encoder fails
GenerateFecData(fr, nData, nParity, S, fecOk) ==
    IF fecOk THEN Rs28Encode(PaddedData(fr.data, S), nData, nParity, S) ELSE <<>>

\* d->setContent(slice, S) with slice = fecData.data() + seg * S.  When fecData
\* is empty the read runs outside the vector: the bytes read are whatever the
\* build finds there (junk), unless the read faults.
ParitySlice(fecData, seg, S, junk) ==
    IF Len(fecData) >= (seg + 1) * S
    THEN SubSeq(fecData, seg * S + 1, seg * S + S)
    ELSE [i \in 1..S |-> junk]

ParitySegment(frameName, fr, seg, st, fecData, junk) ==
    LET n == NDataSegments(Len(fr.data), st.segmentSize)
        r == NParitySegments(n, st.useFec)
        d0 == Data("parity", Append(Append(frameName, Lit("parity")), Segment(seg)))
        d1 == [d0 EXCEPT !.fresh = SampleFreshness(st, fr.type),
                         !.fbi = r - 1,
                         !.content = ParitySlice(fecData, seg, st.segmentSize, junk)]
    IN Sign(d1, TRUE)

ParitySegments(frameName, fr, st, fecData, junk) ==
    [i \in 1..NParitySegments(NDataSegments(Len(fr.data), st.segmentSize), st.useFec) |->
        ParitySegment(frameName, fr, i - 1, st, fecData, junk)]

\* (*d->getFullName())[-1]: the implicit SHA-256 digest of a segment, a value
\* that is not 0 and differs between the segments of a frame
Digest(d) == 2 * d.name[Len(d.name)][2] + (IF d.kind = "data" THEN 1 ELSE 2)

\* SegmentsManifest::SegmentsManifest: a payload of one zeroed DigestSize-byte
\* slot per segment; every digest is copied to `ptr`, which the loop never
\* advances, so slot 1 ends up holding the digest of the last segment.
\* content[i] stands for the i-th slot of DigestSize bytes.
ManifestPayload(segments) ==
    [i \in 1..Len(segments) |->
        IF i = 1 THEN Digest(segments[Len(segments)]) ELSE 0]

\* The manifest is not signed by publishFrameGobj (no sign() call on it).
SegmentsManifest(frameName, segments) ==
    [Data("manifest", Append(frameName, Lit("_manifest")))
        EXCEPT !.content = ManifestPayload(segments)]

\* a timestamp that keeps the nanoseconds and loses the seconds
CaptureTimestampNanos(ns) == <<0, ns % NsPerSec>>

\* int64_t secs = thisCycleMonotonicNs_/1E9;
\* int32_t nanosec = thisCycleMonotonicNs_ - secs*1E9;
\* the protobuf Timestamp <<seconds, nanos>>.  The arithmetic is in doubles: it
\* is exact, and equal to the integer quotient and remainder, for timestamps
\* below 2^53 ns (104 days on the monotonic clock), the range of the model.
CaptureTimestamp(ns) == <<ns \div NsPerSec, ns % NsPerSec>>

\* a delay measured from the pending interest reported last
GenerationDelayLast(nowMs, memCache, reported) ==
    IF memCache /\ Len(reported) > 0 THEN nowMs - reported[Len(reported)] ELSE 0

\* set_generation_delay(0); if (settings_.memCache_) { getPendingInterestsForName(
\* d->getName(), pis); if (pis.size()) set_generation_delay(nowMs -
\* pis[0]->getTimeoutPeriodStart()) }.  `reported` is what the cache returns
\* for the frame meta's name.
GenerationDelay(nowMs, memCache, reported) ==
    IF memCache /\ Len(reported) > 0 THEN nowMs - reported[1] ELSE 0

\* generateFrameMeta
GenerateFrameMeta(nowMs, frameName, type, nParity, st, thisNs, gSeq, gPos, reported) ==
    LET d0 == Data("frame_meta", Append(frameName, Lit("_meta")))
        d1 == [d0 EXCEPT !.fresh = IF type = "Key" THEN Freshness(st).keySample
                                                   ELSE Freshness(st).sample,
                         !.meta = [capture |-> CaptureTimestamp(thisNs), paritySize |-> nParity,
                                   gopNumber |-> gSeq, gopPosition |-> gPos,
                                   type |-> type,
                                   genDelay |-> GenerationDelay(nowMs, st.memCache, reported),
                                   ts |-> nowMs]]
    IN Sign(d1, FALSE)

\* a frame name appended to the last frame's prefix
FrameNameNested(lastPrefix, fSeq) == Append(lastPrefix, SeqNo(fSeq))

\* Name(lastFramePrefix_.getPrefix(-1)).appendSequenceNumber(frameSeq_)
FrameName(lastPrefix, fSeq) == Append(GetPrefix1(lastPrefix), SeqNo(fSeq))

\* publishFrameGobj: what it appends to *packets
PublishFrameGobj(pkts, fr, st, nowMs, thisNs, lastPrefix, fSeq, gSeq, gPos, fecOk, junk, reported) ==
    LET frameName == FrameName(lastPrefix, fSeq)
        S == st.segmentSize
        nData == NDataSegments(Len(fr.data), S)
        nParity == NParitySegments(nData, st.useFec)
        fecData == IF st.useFec THEN GenerateFecData(fr, nData, nParity, S, fecOk) ELSE <<>>
        withSegs == pkts \o DataSegments(frameName, fr, st)
                         \o ParitySegments(frameName, fr, st, fecData, junk)
        withManifest == Append(withSegs, SegmentsManifest(frameName, withSegs))
    IN Append(withManifest,
              GenerateFrameMeta(nowMs, frameName, fr.type, nParity, st, thisNs, gSeq, gPos,
                                reported))

\* LiveMetadata::update: a tick of the rate meter and one sample for each of
\* the two averages of the frame's type
LiveMetadataUpdate(lm, isKey, nData, nParity) ==
    IF isKey
    THEN [lm EXCEPT !.rate = Append(@, 0), !.keyData = Append(@, nData),
                    !.keyParity = Append(@, nParity)]
    ELSE [lm EXCEPT !.rate = Append(@, 0), !.deltaData = Append(@, nData),
                    !.deltaParity = Append(@, nParity)]

\* an end pointer for every key frame, the first included
GopEndAlways(gSeq) == gSeq >= 0

\* if (gopSeq_ > 0): an end pointer is due
GopEndNeeded(gSeq) == gSeq > 0

\* an end pointer that delegates to the key frame itself
GopEndToCurrent(fPrefix, prevFramePrefix) == <<<<0, fPrefix>>>>

\* the end pointer's delegation set: set.add(0, prevFramePrefix)
GopEndDelegation(fPrefix, prevFramePrefix) == <<<<0, prevFramePrefix>>>>

\* a start pointer numbered like the end pointer
GopStartSeqSame(gSeq) == gSeq

\* the number in the start pointer's name: appendSequenceNumber(gopSeq_+1)
GopStartSeq(gSeq) == gSeq + 1

\* publishGop: the packets it appends (end pointer if gopSeq_ > 0, then start)
PublishGop(fPrefix, prevFramePrefix, gSeq, st) ==
    LET gopPrefix == Append(GetPrefix1(fPrefix), Lit("_gop"))
        endName == Append(Append(gopPrefix, SeqNo(gSeq)), Lit("end"))
        startName == Append(Append(gopPrefix, SeqNo(GopStartSeq(gSeq))), Lit("start"))
        endD == Sign([Data("gop_end", endName)
                        EXCEPT !.fresh = Freshness(st).gop,
                               !.deleg = GopEndDelegation(fPrefix, prevFramePrefix)],
                     FALSE)
        startD == Sign([Data("gop_start", startName)
                          EXCEPT !.fresh = Freshness(st).gop,
                                 !.deleg = <<<<0, fPrefix>>>>], FALSE)
    IN (IF GopEndNeeded(gSeq) THEN <<endD>> ELSE <<>>) \o <<startD>>

\* the prefix of the GoP that the key frame opens
PublishGopResultNext(fPrefix, gSeq) ==
    Append(Append(GetPrefix1(fPrefix), Lit("_gop")), SeqNo(gSeq + 1))

\* publishGop's return value: gopPrefix.appendSequenceNumber(gopSeq_)
PublishGopResult(fPrefix, gSeq) ==
    Append(Append(GetPrefix1(fPrefix), Lit("_gop")), SeqNo(gSeq))

\* addMeta: the stream meta packet; set_width is called twice (with the width,
\* then with the height) and set_height never: content is <<width, height>>
StreamMeta(st) ==
    Sign([Data("stream_meta", Append(StreamPrefix, Lit("_meta")))
            EXCEPT !.fresh = Freshness(st).meta,
                   !.content = <<st.height, 0>>], FALSE)

-----------------------------------------------------------------------------
(* Settings and inputs *)

\* the configurations of Spec; storeInMemCache_ needs a cache, as do the
\* interest filters that drive the reactive callbacks
SpecSettings ==
    {[useFec |-> TRUE, segmentSize |-> 2, memCache |-> c, storeInMemCache |-> c,
      fps |-> 30, gop |-> 30, width |-> 4, height |-> 3] : c \in BOOLEAN}

\* the encoded frames of Spec: two data segments, the last one short
SpecFrames == {[type |-> t, data |-> <<1, 2, 1>>] : t \in {"Key", "Delta"}}

\* the clock advances of SpecClock, in ns: none, 1 ns, just under half a
\* second, half a second (TLC's integers hold the sum of MaxOps + 1 of them)
ClockTicks == {0, 1, NsPerSec \div 2 - 1, NsPerSec \div 2}

\* what getPendingInterestsForName reports in the specifications that are
\* not about the generation delay: no pending interest
NoPending == {<<>>}

\* what it reports in SpecPit: no, one or two pending interests, as their
\* timeout-period starts in ms
PitLists == {<<>>, <<0>>, <<1>>, <<0, 1>>, <<1, 0>>}

\* the encoded frames of SpecMutex: key frames, which take every step of the
\* encoded callback
MutexFrames == {fr \in SpecFrames : fr.type = "Key"}

\* the configurations and frames of SpecFrame
FrameSettings ==
    {[useFec |-> f, segmentSize |-> S, memCache |-> FALSE, storeInMemCache |-> FALSE,
      fps |-> 30, gop |-> 30, width |-> 4, height |-> 3] :
        f \in BOOLEAN, S \in 1..MaxSegSize}

\* the configurations of SpecFresh: a cache is attached, and the frame rate and
\* GoP length give a key-frame freshness of 900 ms or of 66000 ms
FreshSettings ==
    {[useFec |-> TRUE, segmentSize |-> 2, memCache |-> TRUE, storeInMemCache |-> FALSE,
      fps |-> r[1], gop |-> r[2], width |-> 4, height |-> 3] :
        r \in {<<30, 30>>, <<1, 66>>}}

\* the configurations of SpecFirst: the default segment size, with FEC
FirstSettings ==
    {[useFec |-> TRUE, segmentSize |-> DefaultSegmentSize, memCache |-> c,
      storeInMemCache |-> c, fps |-> 30, gop |-> 30, width |-> 4, height |-> 3] :
        c \in BOOLEAN}

\* the frame lengths of SpecFirst: 64 KiB, 64 kB, 7 full segments plus 4096
\* bytes, one full segment, and 4096 bytes
FirstFrameLengths == {65536, 64000, 60096, 8000, 4096}

\* a frame of L bytes, as a sequence
FilledFrame(L) == SubSeq([i \in 1..L |-> 1], 1, L)

FirstFrames ==
    {[type |-> t, data |-> FilledFrame(L)] :
        t \in {"Key", "Delta"}, L \in FirstFrameLengths}

\* the frames of SpecRoll: the codec encodes every image; the frame that
\* follows settings_.gop_ frames is a key frame, the first frame is a key or a
\* delta frame, the others are delta frames
RollFrames ==
    {fr \in SpecFrames :
        CASE Len(returned) = settings.gop -> fr.type = "Key"
          [] Len(returned) = 0 -> TRUE
          [] OTHER -> fr.type = "Delta"}

ByteStrings(n) == UNION {[1..L -> Byte] : L \in 1..n}

AllFrames == {[type |-> t, data |-> d] : t \in {"Key", "Delta"}, d \in ByteStrings(MaxFrameLen)}

NoFrame == [type |-> "Dropped", data |-> <<>>]

NoData == Data("none", EmptyName)

-----------------------------------------------------------------------------
(* Construction *)

\* if (settings_.memCache_): setInterestFilter for stream_prefix/_live and for
\* stream_prefix/_latest, each bound to a callback of this publisher
SetInterestFilters(memCache) == IF memCache THEN {"_live", "_latest"} ELSE {}

\* VideoStreamImpl2::VideoStreamImpl2 followed by addMeta().  The constructor
\* leaves lastPublishEpochMs_ uninitialized and lastGopPrefix_ empty.
Constructed(st, u) ==
    /\ settings = st
    /\ frameSeq = 0 /\ gopPos = 0 /\ gopSeq = 0
    /\ lastFramePrefix = Append(StreamPrefix, SeqNo(SeqSentinel))
    /\ lastGopPrefix = EmptyName
    /\ lastPublishEpochMs = u
    /\ lastCycleMonotonicNs = 0 /\ thisCycleMonotonicNs = 0
    /\ liveMetadata = NoLive
    /\ queued = <<StreamMeta(st)>>
    /\ enqueued = <<StreamMeta(st)>>
    /\ pc = "idle" /\ packets = <<>> /\ frame = NoFrame /\ framePrefix = EmptyName
    /\ fpc = "idle" /\ fd = NoData
    /\ clock = 0 /\ nReq = 0 /\ fstart = 0
    /\ returned = <<>> /\ wire = <<>> /\ cache = <<>>
    /\ fecFailed = FALSE /\ raised = 0
    /\ internalMutex = "free"
    /\ pis = <<>>
    /\ faceRaised = 0
    /\ filters = SetInterestFilters(st.memCache)
    /\ destroyed = FALSE /\ staleCalls = 0

\* Consumer::Consumer: isConsuming_(false); pipeliner_, playout_ and renderer_
\* are set up later and nothing runs
ConsumerConstructed ==
    /\ consumer = "constructed"
    /\ isConsuming = FALSE
    /\ pipelinerStarted = FALSE /\ playoutRunning = FALSE /\ rendering = FALSE
    /\ calls = 0 /\ stopRuns = 0

Init == \E st \in SpecSettings, u \in Uninit : Constructed(st, u) /\ ConsumerConstructed

InitFresh == \E st \in FreshSettings, u \in Uninit : Constructed(st, u) /\ ConsumerConstructed

InitFirst == \E st \in FirstSettings, u \in Uninit : Constructed(st, u) /\ ConsumerConstructed

InitFrame == \E st \in FrameSettings, u \in Uninit : Constructed(st, u) /\ ConsumerConstructed

-----------------------------------------------------------------------------
(* processImage, on the capture thread.                                    *)
(*                                                                         *)
(* A call is cut where the face thread can observe a difference: steps     *)
(* that write two fields a callback reads in the order it reads them stay  *)
(* apart, the others are joined (a callback that runs between two joined   *)
(* steps sees what it sees when it runs before or after both).             *)

\* twice the number of completed processImage calls, plus one during a call
CaptureStamp == 2 * Len(returned) + (IF pc = "idle" THEN 0 ELSE 1)

\* processImage calls and reactive requests begun so far
OpsBegun ==
    Len(returned) + raised + nReq + staleCalls
        + (IF pc \in {"idle", "crashed"} THEN 0 ELSE 1)

\* processImage through publishFrameGobj: the cycle's timestamp is sampled,
\* the codec produces `fr`, publishFrameGobj stores the publish time, emits
\* segments, manifest and frame meta and updates the live metadata.
\* The clocks are read here only, so all the time that passes between two
\* cycles is the advance dt.
\* fec is what generateFecData and the parity loop come to: "ok" (the encoder
\* succeeds), or, when the encoder fails and fecData is empty, the parity loop
\* reads S bytes per segment outside the vector: it finds some bytes there
\* ("junk") or the read faults ("fault") and the process ends.
ProcessImageEncoded(frames, fecOutcomes, ticks, pending, limit) ==
    /\ pc = "idle" /\ OpsBegun < limit
    /\ \E fr \in frames, dt \in ticks, fec \in fecOutcomes, junk \in Byte,
          reported \in pending :
        LET now == clock + dt
            nData == NDataSegments(Len(fr.data), settings.segmentSize)
            nParity == NParitySegments(nData, settings.useFec)
        IN /\ (~settings.useFec) => fec = "ok"
           /\ (~settings.memCache) => reported = <<>>
           /\ \A k \in 1..Len(reported) : reported[k] <= now
           /\ pis' = reported
           /\ clock' = now
           /\ thisCycleMonotonicNs' = now
           /\ lastPublishEpochMs' = now
           /\ frame' = fr
           /\ fecFailed' = (fec # "ok")
           /\ IF fec = "fault"
              THEN /\ pc' = "crashed"
                   /\ UNCHANGED <<packets, liveMetadata, framePrefix>>
              ELSE /\ packets' = PublishFrameGobj(packets, fr, settings, now, now,
                                      lastFramePrefix, frameSeq, gopSeq, gopPos,
                                      fec = "ok", junk, reported)
                   /\ liveMetadata' = LiveMetadataUpdate(liveMetadata,
                                          fr.type = "Key", nData, nParity)
                   /\ framePrefix' = FrameName(lastFramePrefix, frameSeq)
                   /\ pc' = IF fr.type = "Key" THEN "gop" ELSE "advance"
    /\ UNCHANGED <<settings, frameSeq, gopPos, gopSeq, lastFramePrefix, lastGopPrefix,
                   lastCycleMonotonicNs, queued, returned, cache, enqueued>>
    /\ UNCHANGED raised
    /\ UNCHANGED faceVars /\ UNCHANGED lifeVars /\ UNCHANGED consumerVars
    /\ UNCHANGED internalMutex

\* a dropped cycle that stores the publish time all the same
ProcessImageDroppedStamped(limit) ==
    /\ pc = "idle" /\ OpsBegun < limit
    /\ \E dt \in Ticks :
        /\ clock' = clock + dt
        /\ thisCycleMonotonicNs' = clock + dt
        /\ lastPublishEpochMs' = clock + dt
    /\ frame' = NoFrame
    /\ pc' = "tail"
    /\ UNCHANGED <<settings, frameSeq, gopPos, gopSeq, lastFramePrefix, lastGopPrefix,
                   lastCycleMonotonicNs, liveMetadata, queued,
                   packets, framePrefix, returned, cache, enqueued>>
    /\ fecFailed' = FALSE /\ UNCHANGED raised
    /\ UNCHANGED faceVars /\ UNCHANGED lifeVars /\ UNCHANGED consumerVars /\ UNCHANGED pis
    /\ UNCHANGED internalMutex

\* the dropped callback: a log line only
ProcessImageDropped(limit) ==
    /\ pc = "idle" /\ OpsBegun < limit
    /\ \E dt \in Ticks :
        /\ clock' = clock + dt
        /\ thisCycleMonotonicNs' = clock + dt
    /\ frame' = NoFrame
    /\ pc' = "tail"
    /\ UNCHANGED <<settings, frameSeq, gopPos, gopSeq, lastFramePrefix, lastGopPrefix,
                   lastPublishEpochMs, lastCycleMonotonicNs, liveMetadata, queued,
                   packets, framePrefix, returned, cache, enqueued>>
    /\ fecFailed' = FALSE /\ UNCHANGED raised
    /\ UNCHANGED faceVars /\ UNCHANGED lifeVars /\ UNCHANGED consumerVars /\ UNCHANGED pis
    /\ UNCHANGED internalMutex

\* key frame: lastGopPrefix_ = publishGop(framePrefix, lastFramePrefix_, packets); gopSeq_++
EncodedPublishGop ==
    /\ pc = "gop"
    /\ packets' = packets \o PublishGop(framePrefix, lastFramePrefix, gopSeq, settings)
    /\ lastGopPrefix' = PublishGopResult(framePrefix, gopSeq)
    /\ gopSeq' = gopSeq + 1
    /\ pc' = "advance"
    /\ UNCHANGED <<settings, frameSeq, gopPos, lastFramePrefix, lastPublishEpochMs,
                   lastCycleMonotonicNs, thisCycleMonotonicNs, liveMetadata, queued,
                   frame, framePrefix, clock, returned, cache, enqueued>>
    /\ UNCHANGED <<fecFailed, raised>>
    /\ UNCHANGED faceVars /\ UNCHANGED lifeVars /\ UNCHANGED consumerVars /\ UNCHANGED pis
    /\ UNCHANGED internalMutex

\* an encoded callback that starts the position again at a key frame
EncodedAdvanceReset ==
    /\ pc = "advance"
    /\ gopPos' = IF frame.type = "Key" THEN 1 ELSE gopPos + 1
    /\ frameSeq' = frameSeq + 1
    /\ lastFramePrefix' = framePrefix
    /\ pc' = "tail"
    /\ UNCHANGED <<settings, gopSeq, lastGopPrefix, lastPublishEpochMs,
                   lastCycleMonotonicNs, thisCycleMonotonicNs, liveMetadata, queued,
                   packets, frame, framePrefix, clock, returned, cache, enqueued>>
    /\ UNCHANGED <<fecFailed, raised>>
    /\ UNCHANGED faceVars /\ UNCHANGED lifeVars /\ UNCHANGED consumerVars /\ UNCHANGED pis
    /\ UNCHANGED internalMutex

\* an encoded callback that counts the frame twice
EncodedAdvanceTwice ==
    /\ pc = "advance"
    /\ gopPos' = gopPos + 1
    /\ frameSeq' = frameSeq + 2
    /\ lastFramePrefix' = framePrefix
    /\ pc' = "tail"
    /\ UNCHANGED <<settings, gopSeq, lastGopPrefix, lastPublishEpochMs,
                   lastCycleMonotonicNs, thisCycleMonotonicNs, liveMetadata, queued,
                   packets, frame, framePrefix, clock, returned, cache, enqueued>>
    /\ UNCHANGED <<fecFailed, raised>>
    /\ UNCHANGED faceVars /\ UNCHANGED lifeVars /\ UNCHANGED consumerVars /\ UNCHANGED pis
    /\ UNCHANGED internalMutex

\* gopPos_++; frameSeq_++; lastFramePrefix_ = framePrefix
EncodedAdvance ==
    /\ pc = "advance"
    /\ gopPos' = gopPos + 1
    /\ frameSeq' = frameSeq + 1
    /\ lastFramePrefix' = framePrefix
    /\ pc' = "tail"
    /\ UNCHANGED <<settings, gopSeq, lastGopPrefix, lastPublishEpochMs,
                   lastCycleMonotonicNs, thisCycleMonotonicNs, liveMetadata, queued,
                   packets, frame, framePrefix, clock, returned, cache, enqueued>>
    /\ UNCHANGED <<fecFailed, raised>>
    /\ UNCHANGED faceVars /\ UNCHANGED lifeVars /\ UNCHANGED consumerVars /\ UNCHANGED pis
    /\ UNCHANGED internalMutex

\* a drain that puts the queued packets in front of the frame's
DrainInFront(pkts, q) == IF Len(q) > 0 THEN q \o pkts ELSE pkts

\* if (queued_.size()) { lock; copy queued_ to the tail of packets; clear }
\* what processImage returns, given its packets and the queue
DrainInto(pkts, q) == IF Len(q) > 0 THEN pkts \o q ELSE pkts

\* a drain that leaves the queue as it is
QueuedKept(q) == q

\* queued_ after the drain: queued_.clear()
QueuedClear(q) == <<>>

\* a cache that is given every batch, whatever the setting
MemCacheAddAlways(c, batch, store) == c \o batch

\* if (settings_.storeInMemCache_) for (auto &d : packets) memCache_->add(*d)
MemCacheAdd(c, batch, store) == IF store THEN c \o batch ELSE c

\* the tail of processImage: the drain of queued_, memCache_->add of every
\* packet if storeInMemCache_, lastCycleMonotonicNs_ = thisCycleMonotonicNs_,
\* return packets
ProcessImageReturn ==
    /\ pc = "tail"
    /\ LET batch == DrainInto(packets, queued)
       IN /\ cache' = MemCacheAdd(cache, batch, settings.storeInMemCache)
          /\ returned' = Append(returned, [pkts |-> batch, type |-> frame.type])
    /\ queued' = QueuedClear(queued)
    /\ lastCycleMonotonicNs' = thisCycleMonotonicNs
    /\ packets' = <<>> /\ frame' = NoFrame /\ framePrefix' = EmptyName
    /\ pc' = "idle"
    /\ UNCHANGED <<settings, frameSeq, gopPos, gopSeq, lastFramePrefix, lastGopPrefix,
                   lastPublishEpochMs, thisCycleMonotonicNs, liveMetadata,
                   clock, enqueued>>
    /\ UNCHANGED <<fecFailed, raised>>
    /\ UNCHANGED faceVars /\ UNCHANGED lifeVars /\ UNCHANGED consumerVars /\ UNCHANGED pis
    /\ UNCHANGED internalMutex

\* keyChain_->sign throws inside generateFrameMeta (sign(*d), the first
\* keychain signature of a cycle).  Neither sign, generateFrameMeta,
\* publishFrameGobj, the encoded callback nor processImage has a handler: the
\* exception leaves processImage, whose local `packets` is destroyed.  The
\* timestamp of the cycle and the publish time have been stored by then;
\* liveMetadata_.update and the counters have not been reached.
FrameMetaSignFailed(limit) ==
    /\ pc = "idle" /\ OpsBegun < limit
    /\ \E dt \in Ticks :
        /\ clock' = clock + dt
        /\ thisCycleMonotonicNs' = clock + dt
        /\ lastPublishEpochMs' = clock + dt
    /\ raised' = raised + 1
    /\ fecFailed' = FALSE
    /\ UNCHANGED <<settings, frameSeq, gopPos, gopSeq, lastFramePrefix, lastGopPrefix,
                   lastCycleMonotonicNs, liveMetadata, queued, pc, packets, frame,
                   framePrefix, returned, cache, enqueued>>
    /\ UNCHANGED faceVars /\ UNCHANGED lifeVars /\ UNCHANGED consumerVars /\ UNCHANGED pis
    /\ UNCHANGED internalMutex

\* keyChain_->sign throws inside publishGop (the end or the start pointer):
\* the exception leaves processImage before lastGopPrefix_, gopSeq_, gopPos_,
\* frameSeq_ and lastFramePrefix_ are written; liveMetadata_ has been updated
\* for the frame.
PublishGopSignFailed ==
    /\ pc = "gop"
    /\ raised' = raised + 1
    /\ packets' = <<>> /\ frame' = NoFrame /\ framePrefix' = EmptyName
    /\ pc' = "idle"
    /\ UNCHANGED <<settings, frameSeq, gopPos, gopSeq, lastFramePrefix, lastGopPrefix,
                   lastPublishEpochMs, lastCycleMonotonicNs, thisCycleMonotonicNs,
                   liveMetadata, queued, clock, returned, cache, enqueued, fecFailed>>
    /\ UNCHANGED faceVars /\ UNCHANGED lifeVars /\ UNCHANGED consumerVars /\ UNCHANGED pis
    /\ UNCHANGED internalMutex

-----------------------------------------------------------------------------
(* The reactive callbacks, on the face thread.  The interest filters are   *)
(* installed only when a memory content cache is attached.                 *)

\* onLatestMetaRequest -> generateLatestPacket: the packet name, which reads
\* lastPublishEpochMs_
OnLatestRequest(limit) ==
    /\ fpc = "idle" /\ settings.memCache /\ pc # "crashed" /\ OpsBegun < limit
    /\ "_latest" \in filters
    /\ fd' = [Data("latest", Append(Append(StreamPrefix, Lit("_latest")),
                                    Timestamp(lastPublishEpochMs)))
                EXCEPT !.fresh = Freshness(settings).latest, !.id = nReq + 1]
    /\ nReq' = nReq + 1
    /\ fstart' = CaptureStamp
    /\ fpc' = "latest0"
    /\ UNCHANGED <<wire, queued, enqueued>>
    /\ UNCHANGED captureVars /\ UNCHANGED lifeVars /\ UNCHANGED consumerVars /\ UNCHANGED settingsVars /\ UNCHANGED faceRaised
    /\ UNCHANGED internalMutex

\* an entry 0 that names the frame to be published next
LatestEntry0Next ==
    /\ fpc = "latest0" /\ pc # "crashed"
    /\ fd' = [fd EXCEPT !.deleg = Append(@, <<0, FrameName(lastFramePrefix, frameSeq)>>)]
    /\ fpc' = "latest1"
    /\ UNCHANGED <<nReq, fstart, wire, queued, enqueued>>
    /\ UNCHANGED captureVars /\ UNCHANGED lifeVars /\ UNCHANGED consumerVars /\ UNCHANGED settingsVars /\ UNCHANGED faceRaised
    /\ UNCHANGED internalMutex

\* set.add(0, lastFramePrefix_)
LatestEntry0 ==
    /\ fpc = "latest0" /\ pc # "crashed"
    /\ fd' = [fd EXCEPT !.deleg = Append(@, <<0, lastFramePrefix>>)]
    /\ fpc' = "latest1"
    /\ UNCHANGED <<nReq, fstart, wire, queued, enqueued>>
    /\ UNCHANGED captureVars /\ UNCHANGED lifeVars /\ UNCHANGED consumerVars /\ UNCHANGED settingsVars /\ UNCHANGED faceRaised
    /\ UNCHANGED internalMutex

\* a _latest callback that does not pass its packet to the face
LatestEntry1Unsent ==
    /\ fpc = "latest1" /\ pc # "crashed"
    /\ fd' = Sign([fd EXCEPT !.deleg = Append(@, <<1, lastGopPrefix>>)], FALSE)
    /\ fpc' = "enqueue"
    /\ UNCHANGED <<nReq, fstart, wire, queued, enqueued>>
    /\ UNCHANGED captureVars /\ UNCHANGED lifeVars /\ UNCHANGED consumerVars /\ UNCHANGED settingsVars /\ UNCHANGED faceRaised
    /\ UNCHANGED internalMutex

\* set.add(1, lastGopPrefix_); sign(*d); then face.putData(*d)
LatestEntry1 ==
    /\ fpc = "latest1" /\ pc # "crashed"
    /\ LET d == Sign([fd EXCEPT !.deleg = Append(@, <<1, lastGopPrefix>>)], FALSE)
       IN /\ fd' = d
          /\ wire' = Append(wire, d)
    /\ fpc' = "enqueue"
    /\ UNCHANGED <<nReq, fstart, queued, enqueued>>
    /\ UNCHANGED captureVars /\ UNCHANGED lifeVars /\ UNCHANGED consumerVars /\ UNCHANGED settingsVars /\ UNCHANGED faceRaised
    /\ UNCHANGED internalMutex

\* onLiveMetadataRequest -> generateLivePacket: the timestamp, which reads
\* lastCycleMonotonicNs_
OnLiveRequest(limit) ==
    /\ fpc = "idle" /\ settings.memCache /\ pc # "crashed" /\ OpsBegun < limit
    /\ "_live" \in filters
    /\ fd' = [Data("live", EmptyName)
                EXCEPT !.content = <<lastCycleMonotonicNs>>, !.id = nReq + 1]
    /\ nReq' = nReq + 1
    /\ fstart' = CaptureStamp
    /\ fpc' = "live0"
    /\ UNCHANGED <<wire, queued, enqueued>>
    /\ UNCHANGED captureVars /\ UNCHANGED lifeVars /\ UNCHANGED consumerVars /\ UNCHANGED settingsVars /\ UNCHANGED faceRaised
    /\ UNCHANGED internalMutex

\* the rate and the four segment-number estimates, which read liveMetadata_
LiveEstimates ==
    /\ fpc = "live0" /\ pc # "crashed"
    /\ fd' = [fd EXCEPT !.live = liveMetadata]
    /\ fpc' = "live1"
    /\ UNCHANGED <<nReq, fstart, wire, queued, enqueued>>
    /\ UNCHANGED captureVars /\ UNCHANGED lifeVars /\ UNCHANGED consumerVars /\ UNCHANGED settingsVars /\ UNCHANGED faceRaised
    /\ UNCHANGED internalMutex

\* the packet name, which reads lastPublishEpochMs_; sign(*d); face.putData(*d)
LiveName ==
    /\ fpc = "live1" /\ pc # "crashed"
    /\ LET d == Sign([fd EXCEPT !.name = Append(Append(StreamPrefix, Lit("_live")),
                                                Timestamp(lastPublishEpochMs)),
                                !.fresh = Freshness(settings).live], FALSE)
       IN /\ fd' = d
          /\ wire' = Append(wire, d)
    /\ fpc' = "enqueue"
    /\ UNCHANGED <<nReq, fstart, queued, enqueued>>
    /\ UNCHANGED captureVars /\ UNCHANGED lifeVars /\ UNCHANGED consumerVars /\ UNCHANGED settingsVars /\ UNCHANGED faceRaised
    /\ UNCHANGED internalMutex

\* keyChain_->sign, or face.putData, throws while a callback is at sign(*d) or
\* at face.putData(*d).  Neither sign, generateLatestPacket,
\* generateLivePacket nor the callbacks has a handler: the exception leaves
\* the callback for the code of the face thread that called it; the packet is
\* neither put on the face nor pushed onto queued_.
ReplyFailed ==
    /\ fpc \in {"latest1", "live1"} /\ pc # "crashed"
    /\ faceRaised' = faceRaised + 1
    /\ fd' = NoData
    /\ fstart' = 0
    /\ fpc' = "idle"
    /\ UNCHANGED <<nReq, wire, queued, enqueued>>
    /\ UNCHANGED captureVars /\ UNCHANGED lifeVars /\ UNCHANGED consumerVars /\ UNCHANGED settingsVars
    /\ UNCHANGED internalMutex

\* under internalMutex_: queued_.push_back(d)
EnqueueReply ==
    /\ fpc = "enqueue" /\ pc # "crashed"
    /\ queued' = Append(queued, fd)
    /\ enqueued' = Append(enqueued, fd)
    /\ fd' = NoData
    /\ fstart' = 0
    /\ fpc' = "idle"
    /\ UNCHANGED <<nReq, wire>>
    /\ UNCHANGED captureVars /\ UNCHANGED lifeVars /\ UNCHANGED consumerVars /\ UNCHANGED settingsVars /\ UNCHANGED faceRaised
    /\ UNCHANGED internalMutex

-----------------------------------------------------------------------------
(* queued_ and internalMutex_, access by access.  ProcessImageReturn and   *)
(* EnqueueReply take and release the mutex within one step; the actions    *)
(* below cut the same code at every access of queued_ and at every         *)
(* acquisition of the mutex.                                               *)

\* the capture thread's next step reads or writes queued_
CaptureAccess == pc \in {"tail", "drain"}

\* the face thread's next step writes queued_
FaceAccess == fpc = "push"

\* if (queued_.size()), read without the mutex.  While the face thread is
\* inside push_back the read races with the write: it may see the old size,
\* the new one or a torn value, so either branch can be taken.
SizeTest(q, racing) == IF racing THEN BOOLEAN ELSE {Len(q) > 0}

TailSizeTest ==
    /\ pc = "tail"
    /\ \E nonEmpty \in SizeTest(queued, FaceAccess) :
        pc' = IF nonEmpty THEN "lock" ELSE "store"
    /\ UNCHANGED <<settings, frameSeq, gopPos, gopSeq, lastFramePrefix, lastGopPrefix,
                   lastPublishEpochMs, lastCycleMonotonicNs, thisCycleMonotonicNs,
                   liveMetadata, queued, packets, frame, framePrefix, clock,
                   returned, cache, enqueued, fecFailed, raised>>
    /\ UNCHANGED faceVars /\ UNCHANGED lifeVars /\ UNCHANGED consumerVars /\ UNCHANGED pis
    /\ UNCHANGED internalMutex

\* lock_guard<mutex> g(internalMutex_) in processImage: blocks while the face
\* thread holds the mutex
TailLock ==
    /\ pc = "lock" /\ internalMutex = "free"
    /\ internalMutex' = "capture"
    /\ pc' = "drain"
    /\ UNCHANGED <<settings, frameSeq, gopPos, gopSeq, lastFramePrefix, lastGopPrefix,
                   lastPublishEpochMs, lastCycleMonotonicNs, thisCycleMonotonicNs,
                   liveMetadata, queued, packets, frame, framePrefix, clock,
                   returned, cache, enqueued, fecFailed, raised>>
    /\ UNCHANGED faceVars /\ UNCHANGED lifeVars /\ UNCHANGED consumerVars /\ UNCHANGED pis

\* a drain whose guard lives on to the end of processImage
TailDrainHeld ==
    /\ pc = "drain"
    /\ packets' = packets \o queued
    /\ queued' = QueuedClear(queued)
    /\ pc' = "store"
    /\ UNCHANGED <<settings, frameSeq, gopPos, gopSeq, lastFramePrefix, lastGopPrefix,
                   lastPublishEpochMs, lastCycleMonotonicNs, thisCycleMonotonicNs,
                   liveMetadata, frame, framePrefix, clock,
                   returned, cache, enqueued, fecFailed, raised>>
    /\ UNCHANGED faceVars /\ UNCHANGED lifeVars /\ UNCHANGED consumerVars /\ UNCHANGED pis
    /\ UNCHANGED internalMutex

\* copy(queued_ ..., back_inserter(packets)); queued_.clear(); the guard's
\* scope ends
TailDrain ==
    /\ pc = "drain"
    /\ packets' = packets \o queued
    /\ queued' = QueuedClear(queued)
    /\ internalMutex' = "free"
    /\ pc' = "store"
    /\ UNCHANGED <<settings, frameSeq, gopPos, gopSeq, lastFramePrefix, lastGopPrefix,
                   lastPublishEpochMs, lastCycleMonotonicNs, thisCycleMonotonicNs,
                   liveMetadata, frame, framePrefix, clock,
                   returned, cache, enqueued, fecFailed, raised>>
    /\ UNCHANGED faceVars /\ UNCHANGED lifeVars /\ UNCHANGED consumerVars /\ UNCHANGED pis

\* memCache_->add of every packet if storeInMemCache_;
\* lastCycleMonotonicNs_ = thisCycleMonotonicNs_; return packets
TailStore ==
    /\ pc = "store"
    /\ cache' = MemCacheAdd(cache, packets, settings.storeInMemCache)
    /\ returned' = Append(returned, [pkts |-> packets, type |-> frame.type])
    /\ lastCycleMonotonicNs' = thisCycleMonotonicNs
    /\ packets' = <<>> /\ frame' = NoFrame /\ framePrefix' = EmptyName
    /\ pc' = "idle"
    /\ UNCHANGED <<settings, frameSeq, gopPos, gopSeq, lastFramePrefix, lastGopPrefix,
                   lastPublishEpochMs, thisCycleMonotonicNs, liveMetadata, queued,
                   clock, enqueued, fecFailed, raised>>
    /\ UNCHANGED faceVars /\ UNCHANGED lifeVars /\ UNCHANGED consumerVars /\ UNCHANGED pis
    /\ UNCHANGED internalMutex

\* lock_guard<mutex> g(internalMutex_) in a reactive callback: blocks while
\* the capture thread holds the mutex
FaceLock ==
    /\ fpc = "enqueue" /\ pc # "crashed" /\ internalMutex = "free"
    /\ internalMutex' = "face"
    /\ fpc' = "push"
    /\ UNCHANGED <<fd, nReq, fstart, wire, queued, enqueued>>
    /\ UNCHANGED captureVars /\ UNCHANGED lifeVars /\ UNCHANGED consumerVars /\ UNCHANGED settingsVars /\ UNCHANGED faceRaised

\* queued_.push_back(d); the guard's scope ends
FacePushBack ==
    /\ fpc = "push"
    /\ queued' = Append(queued, fd)
    /\ enqueued' = Append(enqueued, fd)
    /\ fd' = NoData
    /\ fstart' = 0
    /\ fpc' = "idle"
    /\ internalMutex' = "free"
    /\ UNCHANGED <<nReq, wire>>
    /\ UNCHANGED captureVars /\ UNCHANGED lifeVars /\ UNCHANGED consumerVars /\ UNCHANGED settingsVars /\ UNCHANGED faceRaised

-----------------------------------------------------------------------------
(* The end of the publisher.  memCache_ is a shared pointer the application *)
(* hands over in the settings: the cache, and the filters it holds, live on *)
(* when the publisher is destroyed.                                         *)

\* what the destructor does to the filters: its body is a comment
\* ("TODO: unset interest filters callbacks")
DestructorFilters(f) == f

\* ~VideoStreamImpl2, run by the owner between two processImage calls and
\* while no callback is running
Destroy ==
    /\ ~destroyed /\ pc = "idle" /\ fpc = "idle"
    /\ destroyed' = TRUE
    /\ filters' = DestructorFilters(filters)
    /\ UNCHANGED staleCalls
    /\ UNCHANGED <<settings, queued, enqueued, internalMutex>>
    /\ UNCHANGED captureVars /\ UNCHANGED faceVars
    /\ UNCHANGED consumerVars

\* An interest matches a filter that is still installed after the publisher
\* has been destroyed: the cache invokes the bound callback, whose `this` is
\* the destroyed object.  The callback reads members of an object whose
\* lifetime has ended: the process ends there, or the callback comes to the
\* end with whatever it found in the members and puts a packet on the face.
StaleRequest(limit) ==
    /\ destroyed /\ fpc = "idle" /\ pc # "crashed" /\ OpsBegun < limit
    /\ staleCalls' = staleCalls + 1
    /\ \E f \in filters, u \in Uninit, faults \in BOOLEAN :
        IF faults
        THEN /\ pc' = "crashed"
             /\ UNCHANGED wire
        ELSE /\ wire' = Append(wire, Sign(Data(IF f = "_latest" THEN "latest" ELSE "live",
                                    Append(Append(StreamPrefix, Lit(f)), Timestamp(u))),
                                    FALSE))
             /\ UNCHANGED pc
    /\ UNCHANGED <<settings, queued, enqueued, internalMutex, filters, destroyed>>
    /\ UNCHANGED <<frameSeq, gopPos, gopSeq, lastFramePrefix, lastGopPrefix,
                   lastPublishEpochMs, lastCycleMonotonicNs, thisCycleMonotonicNs,
                   liveMetadata, packets, frame, framePrefix, clock, returned, cache,
                   fecFailed, raised, pis>>
    /\ UNCHANGED <<fpc, fd, nReq, fstart, faceRaised>>
    /\ UNCHANGED consumerVars

-----------------------------------------------------------------------------
(* Consumer (cpp/src/consumer.cpp).  The pipeliner, the playout and the    *)
(* renderer are seen through the calls the Consumer makes on them.         *)

\* Consumer::init: the frame buffer and the pipeliner are created, the
\* Consumer registers for the pipeliner's callbacks
ConsumerInit ==
    /\ consumer = "constructed"
    /\ consumer' = "ready"
    /\ UNCHANGED <<isConsuming, pipelinerStarted, playoutRunning, rendering, calls, stopRuns>>
    /\ UNCHANGED publisherVars

\* Consumer::start: pipeliner_->start(); isConsuming_ is not written
ConsumerStart ==
    /\ consumer = "ready" /\ calls < MaxCalls
    /\ pipelinerStarted' = TRUE
    /\ calls' = calls + 1
    /\ UNCHANGED <<consumer, isConsuming, playoutRunning, rendering, stopRuns>>
    /\ UNCHANGED publisherVars

\* Consumer::stop: pipeliner_->stop(); playout_->stop();
\* renderer_->stopRendering(); isConsuming_ is not written
ConsumerStop ==
    /\ consumer = "ready" /\ calls < MaxCalls
    /\ pipelinerStarted' = FALSE
    /\ playoutRunning' = FALSE
    /\ rendering' = FALSE
    /\ calls' = calls + 1
    /\ stopRuns' = stopRuns + 1
    /\ UNCHANGED <<consumer, isConsuming>>
    /\ UNCHANGED publisherVars

\* Consumer::onBufferingEnded, called by the started pipeliner
OnBufferingEnded ==
    /\ consumer = "ready" /\ pipelinerStarted
    /\ playoutRunning' = TRUE
    /\ rendering' = TRUE
    /\ UNCHANGED <<consumer, isConsuming, pipelinerStarted, calls, stopRuns>>
    /\ UNCHANGED publisherVars

\* Consumer::onRebufferingOccurred, called by the started pipeliner
OnRebufferingOccurred ==
    /\ consumer = "ready" /\ pipelinerStarted
    /\ playoutRunning' = FALSE
    /\ rendering' = FALSE
    /\ UNCHANGED <<consumer, isConsuming, pipelinerStarted, calls, stopRuns>>
    /\ UNCHANGED publisherVars

\* Consumer::~Consumer: if (isConsuming_) stop();
ConsumerDestroy ==
    /\ consumer # "destroyed"
    /\ consumer' = "destroyed"
    /\ IF isConsuming
       THEN /\ pipelinerStarted' = FALSE
            /\ playoutRunning' = FALSE
            /\ rendering' = FALSE
            /\ stopRuns' = stopRuns + 1
       ELSE UNCHANGED <<pipelinerStarted, playoutRunning, rendering, stopRuns>>
    /\ UNCHANGED <<isConsuming, calls>>
    /\ UNCHANGED publisherVars

-----------------------------------------------------------------------------
(* Specifications *)

\* Both threads; the FEC encoder succeeds in every cycle.
Next ==
    \/ ProcessImageEncoded(SpecFrames, {"ok"}, Ticks, NoPending, MaxOps)
    \/ ProcessImageDropped(MaxOps)
    \/ EncodedPublishGop
    \/ EncodedAdvance
    \/ ProcessImageReturn
    \/ OnLatestRequest(MaxOps)
    \/ LatestEntry0
    \/ LatestEntry1
    \/ OnLiveRequest(MaxOps)
    \/ LiveEstimates
    \/ LiveName
    \/ EnqueueReply

Spec == Init /\ [][Next]_vars

\* One encode cycle of the capture thread on a fresh publisher, for every
\* configuration, frame and outcome of the FEC encoder.
NextFrame ==
    \/ ProcessImageEncoded(AllFrames, {"ok", "junk", "fault"}, Ticks, NoPending, 1)
    \/ ProcessImageDropped(1)
    \/ EncodedPublishGop
    \/ EncodedAdvance
    \/ ProcessImageReturn

SpecFrame == InitFrame /\ [][NextFrame]_vars

\* The first encode cycle of a stream with the default segment size, on frames
\* of about 64 KB.
NextFirst ==
    \/ ProcessImageEncoded(FirstFrames, {"ok"}, Ticks, NoPending, 1)
    \/ ProcessImageDropped(1)
    \/ EncodedPublishGop
    \/ EncodedAdvance
    \/ ProcessImageReturn

SpecFirst == InitFirst /\ [][NextFirst]_vars

\* The capture thread over one GoP and the key frame that follows it, with one
\* clock tick per cycle.
NextRoll ==
    \/ ProcessImageEncoded(RollFrames, {"ok"}, {1}, NoPending, settings.gop + 1)
    \/ EncodedPublishGop
    \/ EncodedAdvance
    \/ ProcessImageReturn

SpecRoll == Init /\ [][NextRoll]_vars

\* Both threads, over frame rates and GoP lengths.
SpecFresh == InitFresh /\ [][Next]_vars

\* The capture thread with a keychain whose sign may throw.
NextSigner ==
    \/ ProcessImageEncoded(SpecFrames, {"ok"}, Ticks, NoPending, MaxOps)
    \/ ProcessImageDropped(MaxOps)
    \/ EncodedPublishGop
    \/ EncodedAdvance
    \/ ProcessImageReturn
    \/ FrameMetaSignFailed(MaxOps)
    \/ PublishGopSignFailed

SpecSigner == Init /\ [][NextSigner]_vars

\* The capture thread, with clock advances on both sides of a second.
NextClock ==
    \/ ProcessImageEncoded(SpecFrames, {"ok"}, ClockTicks, NoPending, MaxOps)
    \/ ProcessImageDropped(MaxOps)
    \/ EncodedPublishGop
    \/ EncodedAdvance
    \/ ProcessImageReturn

SpecClock == Init /\ [][NextClock]_vars

\* The capture thread, with pending interests for the frame metas.
NextPit ==
    \/ ProcessImageEncoded(SpecFrames, {"ok"}, Ticks, PitLists, MaxOps)
    \/ ProcessImageDropped(MaxOps)
    \/ EncodedPublishGop
    \/ EncodedAdvance
    \/ ProcessImageReturn

SpecPit == Init /\ [][NextPit]_vars

\* Both threads, with a keychain or a face whose call may throw in a callback.
NextReply ==
    \/ ProcessImageEncoded(SpecFrames, {"ok"}, {1}, NoPending, MaxOps)
    \/ EncodedPublishGop
    \/ EncodedAdvance
    \/ ProcessImageReturn
    \/ OnLatestRequest(MaxOps)
    \/ LatestEntry0
    \/ LatestEntry1
    \/ OnLiveRequest(MaxOps)
    \/ LiveEstimates
    \/ LiveName
    \/ EnqueueReply
    \/ ReplyFailed

SpecReply == Init /\ [][NextReply]_vars

\* Both threads, with every access of queued_ and every acquisition of
\* internalMutex_ a step of its own.
NextMutex ==
    \/ ProcessImageEncoded(MutexFrames, {"ok"}, {1}, NoPending, MaxOps)
    \/ ProcessImageDropped(MaxOps)
    \/ EncodedPublishGop
    \/ EncodedAdvance
    \/ TailSizeTest
    \/ TailLock
    \/ TailDrain
    \/ TailStore
    \/ OnLatestRequest(MaxOps)
    \/ LatestEntry0
    \/ LatestEntry1
    \/ OnLiveRequest(MaxOps)
    \/ LiveEstimates
    \/ LiveName
    \/ FaceLock
    \/ FacePushBack

SpecMutex == Init /\ [][NextMutex]_vars

\* Both threads while the publisher lives, its destruction, and the interests
\* that arrive afterwards.
NextLife ==
    \/ ~destroyed /\ Next
    \/ Destroy
    \/ StaleRequest(MaxOps)

SpecLife == Init /\ [][NextLife]_vars

\* The Consumer from its construction to its destruction; the publisher
\* stays as constructed.
NextConsumer ==
    \/ ConsumerInit
    \/ ConsumerStart
    \/ ConsumerStop
    \/ OnBufferingEnded
    \/ OnRebufferingOccurred
    \/ ConsumerDestroy

SpecConsumer == Init /\ [][NextConsumer]_vars

\* SpecMutex with threads that keep running: a thread that can take a step
\* eventually takes one.
CaptureNext ==
    \/ EncodedPublishGop \/ EncodedAdvance
    \/ TailSizeTest \/ TailLock \/ TailDrain \/ TailStore

FaceNext ==
    \/ LatestEntry0 \/ LatestEntry1 \/ LiveEstimates \/ LiveName
    \/ FaceLock \/ FacePushBack

SpecMutexFair == SpecMutex /\ WF_vars(CaptureNext) /\ WF_vars(FaceNext)

-----------------------------------------------------------------------------
(* Vocabulary of the properties *)

Last(q) == q[Len(q)]

CountKind(pkts, k) == Cardinality({i \in 1..Len(pkts) : pkts[i].kind = k})

OfKind(pkts, k) == SelectSeq(pkts, LAMBDA d : d.kind = k)

ReactiveKinds == {"stream_meta", "latest", "live"}

\* the packets of a batch that came from queued_
Drained(pkts) == SelectSeq(pkts, LAMBDA d : d.kind \in ReactiveKinds)

\* position of a packet's kind in the order of a batch
Rank(d) ==
    CASE d.kind = "data" -> 1
      [] d.kind = "parity" -> 2
      [] d.kind = "manifest" -> 3
      [] d.kind = "frame_meta" -> 4
      [] d.kind = "gop_end" -> 5
      [] d.kind = "gop_start" -> 6
      [] OTHER -> 7

RECURSIVE DrainedUpTo(_)
DrainedUpTo(i) ==
    IF i = 0 THEN <<>> ELSE DrainedUpTo(i - 1) \o Drained(returned[i].pkts)

IsPrefix(p, q) == Len(p) <= Len(q) /\ SubSeq(q, 1, Len(p)) = p

\* number of frames published (of key frames published) by the calls before call i
EncodedBefore(i) == Cardinality({j \in 1..(i - 1) : returned[j].type # "Dropped"})
KeysBefore(i) == Cardinality({j \in 1..(i - 1) : returned[j].type = "Key"})

SegNo(d) == Last(d.name)[2]

FramePrefixOf(n) == Append(StreamPrefix, SeqNo(n))
GopPrefixOf(n) == Append(Append(StreamPrefix, Lit("_gop")), SeqNo(n))

-----------------------------------------------------------------------------
(* C1..C4: the batch of one encode cycle *)

\* C1: in every batch returned for an encoded frame the packets come in the
\* order data segments 0..k-1, parity segments 0..r-1, manifest, frame meta,
\* GoP end pointer, GoP start pointer, and then the packets drained from
\* queued_; taken over all batches, the drained packets come out in the order
\* in which they were pushed onto queued_.
C1_BatchOrder ==
    /\ \A i \in 1..Len(returned) :
        LET b == returned[i].pkts
        IN returned[i].type # "Dropped" =>
            /\ \A x, y \in 1..Len(b) : x < y => Rank(b[x]) <= Rank(b[y])
            /\ \A x \in 1..Len(OfKind(b, "data")) : SegNo(OfKind(b, "data")[x]) = x - 1
            /\ \A x \in 1..Len(OfKind(b, "parity")) : SegNo(OfKind(b, "parity")[x]) = x - 1
            /\ CountKind(b, "data") >= 1
            /\ CountKind(b, "manifest") = 1
            /\ CountKind(b, "frame_meta") = 1
            /\ CountKind(b, "gop_end") <= 1
            /\ CountKind(b, "gop_start") <= 1
    /\ IsPrefix(DrainedUpTo(Len(returned)), enqueued)

\* a key-frame batch with two data segments, a parity segment, a GoP pointer and
\* two drained packets, the reply of a reactive request behind the stream meta
C1_Witness ==
    \E i \in 1..Len(returned) :
        LET b == returned[i].pkts
        IN /\ returned[i].type = "Key"
           /\ CountKind(b, "data") = 2 /\ CountKind(b, "parity") = 1
           /\ CountKind(b, "gop_start") = 1
           /\ Len(Drained(b)) = 2
           /\ Drained(b)[1].kind = "stream_meta" /\ Drained(b)[2].kind = "latest"

\* C2: frame_seq counts the published frames and gop_seq the published key
\* frames (both 0 at construction, so the first key frame takes gop_seq from 0
\* to 1), a step raises either by at most 1, and neither ever decreases.
C2_Counters ==
    /\ [](pc = "idle" =>
            /\ frameSeq = EncodedBefore(Len(returned) + 1)
            /\ gopSeq = KeysBefore(Len(returned) + 1))
    /\ [][/\ frameSeq' \in {frameSeq, frameSeq + 1}
          /\ gopSeq' \in {gopSeq, gopSeq + 1}
          /\ gopSeq' = gopSeq + 1 => frame.type = "Key"
          /\ frameSeq' = frameSeq + 1 => frame.type # "Dropped"]_vars

\* a key frame, a delta frame and a dropped frame have been processed
C2_Witness ==
    /\ pc = "idle" /\ Len(returned) = 3
    /\ frameSeq = 2 /\ gopSeq = 1
    /\ \E i \in 1..3 : returned[i].type = "Dropped"

\* C3: the batch of the first key frame holds one GoP pointer, a start pointer;
\* the batch of every later key frame holds two, an end and a start pointer;
\* the batch of a delta or dropped frame holds none.
C3_GopPointerCount ==
    \A i \in 1..Len(returned) :
        LET b == returned[i].pkts
            nEnd == CountKind(b, "gop_end")
            nStart == CountKind(b, "gop_start")
        IN IF returned[i].type = "Key"
           THEN IF KeysBefore(i) = 0
                THEN nEnd = 0 /\ nStart = 1
                ELSE nEnd = 1 /\ nStart = 1
           ELSE nEnd = 0 /\ nStart = 0

\* two key frames and a frame that is not a key frame have been processed
C3_Witness ==
    /\ Len(returned) = 3
    /\ KeysBefore(4) = 2
    /\ CountKind(returned[3].pkts, "gop_end") = 1

\* C4: the key frame published while gop_seq = n emits start pointer
\* gop_prefix/(n+1)/start delegating to its own prefix and, when n > 0, end
\* pointer gop_prefix/n/end delegating to the prefix of the frame published
\* just before it; so the start pointer of GoP n is in an earlier batch than
\* its end pointer, and end(n) shares its batch with start(n+1).
C4_GopPointers ==
    \A i \in 1..Len(returned) :
        LET b == returned[i].pkts
            n == KeysBefore(i)
            f == EncodedBefore(i)
        IN returned[i].type = "Key" =>
            /\ \A x \in 1..Len(b) :
                /\ b[x].kind = "gop_start" =>
                    /\ b[x].name = Append(GopPrefixOf(n + 1), Lit("start"))
                    /\ b[x].deleg = <<<<0, FramePrefixOf(f)>>>>
                /\ b[x].kind = "gop_end" =>
                    /\ n > 0 /\ f > 0
                    /\ b[x].name = Append(GopPrefixOf(n), Lit("end"))
                    /\ b[x].deleg = <<<<0, FramePrefixOf(f - 1)>>>>
                    /\ \E j \in 1..(i - 1) : \E y \in 1..Len(returned[j].pkts) :
                        /\ returned[j].pkts[y].kind = "gop_start"
                        /\ returned[j].pkts[y].name = Append(GopPrefixOf(n), Lit("start"))
                    /\ \E y \in 1..Len(b) :
                        /\ b[y].kind = "gop_start"
                        /\ b[y].name = Append(GopPrefixOf(n + 1), Lit("start"))
            /\ CountKind(b, "gop_start") = 1
            /\ n > 0 => CountKind(b, "gop_end") = 1

\* key, delta, key: the end pointer of GoP 1 delegates to the delta frame
C4_Witness ==
    /\ Len(returned) = 3
    /\ returned[1].type = "Key" /\ returned[2].type = "Delta" /\ returned[3].type = "Key"
    /\ \E x \in 1..Len(returned[3].pkts) :
        /\ returned[3].pkts[x].kind = "gop_end"
        /\ returned[3].pkts[x].deleg = <<<<0, FramePrefixOf(1)>>>>

-----------------------------------------------------------------------------
(* C5..C8: pointers, dropped frames, stream meta, signatures *)

\* C5: a _latest packet built by onLatestMetaRequest while no processImage
\* call is running delegates, as entry 0, to the name of the frame published
\* last and, as entry 1, to the prefix the last publishGop call returned.
C5_LatestDelegation ==
    (fpc = "enqueue" /\ fd.kind = "latest" /\ pc = "idle" /\ fstart = CaptureStamp) =>
        LET e == EncodedBefore(Len(returned) + 1)
            k == KeysBefore(Len(returned) + 1)
        IN /\ Len(fd.deleg) = 2
           /\ fd.deleg[1][1] = 0 /\ fd.deleg[2][1] = 1
           /\ e > 0 => fd.deleg[1][2] = FramePrefixOf(e - 1)
           /\ k > 0 => fd.deleg[2][2] = GopPrefixOf(k - 1)

\* after a key frame and a delta frame, a _latest packet built between calls
C5_Witness ==
    /\ fpc = "enqueue" /\ fd.kind = "latest" /\ pc = "idle" /\ fstart = CaptureStamp
    /\ Len(returned) = 2
    /\ returned[1].type = "Key" /\ returned[2].type = "Delta"

\* C6: a processImage call whose frame the codec drops returns exactly the
\* packets that were in queued_, and leaves frame_seq, gop_seq, gop_pos,
\* last_frame_prefix, last_gop_prefix and last_publish_epoch_ms as they were.
C6_DroppedFrame ==
    [][((pc = "idle" /\ pc' = "tail") \/ (pc = "tail" /\ frame.type = "Dropped")) =>
          /\ UNCHANGED <<frameSeq, gopSeq, gopPos, lastFramePrefix, lastGopPrefix,
                         lastPublishEpochMs>>
          /\ returned' # returned =>
                returned' = Append(returned, [pkts |-> queued, type |-> "Dropped"])]_vars

\* after a published frame, a dropped cycle that returned a queued packet and
\* during which the clock went past the publish time
C6_Witness ==
    \E i \in 1..Len(returned) :
        /\ returned[i].type = "Dropped"
        /\ Len(returned[i].pkts) > 0
        /\ EncodedBefore(i) > 0
        /\ EncodedBefore(Len(returned) + 1) = EncodedBefore(i)
        /\ lastPublishEpochMs < clock

\* C7: the stream meta packet is pushed onto queued_ once, and it is in the
\* batch of the first processImage call and in no other batch.
C7_StreamMetaOnce ==
    /\ CountKind(enqueued, "stream_meta") = 1
    /\ \A i \in 1..Len(returned) :
        CountKind(returned[i].pkts, "stream_meta") = (IF i = 1 THEN 1 ELSE 0)

\* a dropped first cycle, a reactive request and a second cycle
C7_Witness ==
    /\ Len(returned) = 2
    /\ returned[1].type = "Dropped" /\ returned[2].type # "Dropped"
    /\ nReq = 1 /\ fpc = "idle"

\* the signature a packet of this kind is to carry
ExpectedSignature(d) == IF d.kind \in {"data", "parity"} THEN "digest" ELSE "keychain"

\* C8: every packet of a returned batch and every packet passed to
\* face.putData has been signed exactly once, data and parity segments with
\* the digest signature and every other packet with the keychain.
C8_SignedOnce ==
    /\ \A i \in 1..Len(returned) : \A x \in 1..Len(returned[i].pkts) :
        returned[i].pkts[x].sig = <<ExpectedSignature(returned[i].pkts[x])>>
    /\ \A x \in 1..Len(wire) : wire[x].sig = <<ExpectedSignature(wire[x])>>

-----------------------------------------------------------------------------
(* C9, C10: segmentation of one frame (SpecFrame) *)

\* the encoded callback has run publishFrameGobj on `frame`
FramePublished == pc \in {"gop", "advance", "tail"} /\ frame.type # "Dropped"

RECURSIVE ConcatContents(_)
ConcatContents(segs) ==
    IF Len(segs) = 0 THEN <<>>
    ELSE ConcatContents(SubSeq(segs, 1, Len(segs) - 1)) \o Last(segs).content

\* C9: a frame of L bytes yields ceil(L/S) data segments; all but the last
\* carry S bytes, the last carries L - S*(n-1); every one has final-block-id
\* n-1; their payloads, in segment order, are the frame's bytes.
C9_Slicing ==
    FramePublished =>
        LET segs == OfKind(packets, "data")
            n == Len(segs)
            L == Len(frame.data)
            S == settings.segmentSize
        IN /\ n * S >= L /\ (n - 1) * S < L
           /\ \A i \in 1..n :
                /\ Len(segs[i].content) = (IF i = n THEN L - S * (n - 1) ELSE S)
                /\ segs[i].fbi = n - 1
                /\ SegNo(segs[i]) = i - 1
           /\ ConcatContents(segs) = frame.data

\* a frame of three segments whose last segment is short
C9_Witness ==
    /\ FramePublished /\ pc = "tail"
    /\ settings.segmentSize = 2 /\ Len(frame.data) = 5
    /\ CountKind(packets, "data") = 3

\* ceil(n / 5), by its defining inequalities
CeilFifth(n) == CHOOSE r \in 0..n : 5 * r >= n /\ 5 * (r - 1) < n

\* C10: with use_fec the frame has max(1, ceil(0.2 * n_data)) parity segments,
\* each with final-block-id n_parity-1; without use_fec it has none, the
\* manifest has one slot per data segment and the frame meta's parity_size is 0.
C10_ParityCount ==
    FramePublished =>
        LET n == CountKind(packets, "data")
            par == OfKind(packets, "parity")
            r == Len(par)
        IN IF settings.useFec
           THEN /\ r = (IF CeilFifth(n) > 1 THEN CeilFifth(n) ELSE 1)
                /\ \A i \in 1..r : par[i].fbi = r - 1
           ELSE /\ r = 0
                /\ Len(OfKind(packets, "manifest")[1].content) = n
                /\ OfKind(packets, "frame_meta")[1].meta.paritySize = 0

\* six data segments with FEC: two parity segments
C10_Witness ==
    /\ FramePublished /\ pc = "tail"
    /\ settings.useFec
    /\ CountKind(packets, "data") = 6 /\ CountKind(packets, "parity") = 2

-----------------------------------------------------------------------------
(* C11..C13: the manifest, and failures of the FEC encoder and the signer *)

\* the data and parity segments of the frame being published, in batch order
FrameSegments == SelectSeq(packets, LAMBDA d : d.kind \in {"data", "parity"})

\* C11: the manifest of a published frame has a content of
\* 32 * (n_data + n_parity) bytes, one 32-byte slot per segment, and slot i
\* holds the implicit digest of the i-th segment (data segments, then parity
\* segments), so that every segment's digest appears exactly once.
C11_ManifestDigests ==
    FramePublished =>
        LET m == OfKind(packets, "manifest")[1]
            segs == FrameSegments
        IN /\ DigestSize * Len(m.content) = 32 * Len(segs)
           /\ \A i \in 1..Len(segs) : m.content[i] = Digest(segs[i])
           /\ \A i \in 1..Len(segs) :
                Cardinality({j \in 1..Len(m.content) : m.content[j] = Digest(segs[i])}) = 1

\* C12: when the Reed-Solomon encoder fails for a frame, the frame's packets
\* are all its data segments, the manifest and the frame meta, with no parity
\* segment, and the processImage call runs to its return, after which the
\* batch holds no parity segment and frame_seq has advanced.
C12_FecFailureDiscardsParity ==
    fecFailed =>
        /\ pc # "crashed"
        /\ FramePublished =>
            /\ CountKind(packets, "data") =
                   NDataSegments(Len(frame.data), settings.segmentSize)
            /\ CountKind(packets, "parity") = 0
            /\ CountKind(packets, "manifest") = 1
            /\ CountKind(packets, "frame_meta") = 1
        /\ (pc = "idle" /\ Len(returned) = 1) =>
            /\ CountKind(returned[1].pkts, "parity") = 0
            /\ CountKind(returned[1].pkts, "data") >= 1
            /\ frameSeq = 1

\* C13: a processImage call in which the keychain signer fails returns an
\* empty batch to its caller and leaves the publisher ready for the next call.
C13_SignerFailure ==
    [][raised' # raised =>
          /\ Len(returned') = Len(returned) + 1
          /\ Last(returned').pkts = <<>>
          /\ pc' = "idle"]_vars

-----------------------------------------------------------------------------
(* C14: reactive packets and the queue, under every interleaving *)

\* the packets of the reactive callbacks, as opposed to the stream meta
CallbackKinds == {"latest", "live"}

\* number of occurrences, over all returned batches, of reactive packet d
RECURSIVE TimesReturned(_, _)
TimesReturned(d, i) ==
    IF i = 0 THEN 0
    ELSE TimesReturned(d, i - 1)
         + Cardinality({x \in 1..Len(returned[i].pkts) : returned[i].pkts[x] = d})

\* C14: whatever the interleaving of the callbacks with processImage, a packet
\* built by a reactive callback has been passed to face.putData when it is
\* pushed onto queued_; every processImage return takes all the packets that
\* are in queued_ at its drain and empties it, so that a pushed packet is in
\* the batch of the first drain after its push and in no other: the returned
\* reactive packets followed by the queued ones are the pushed ones, and no
\* packet is in the batches twice.
C14_ReactiveDelivery ==
    /\ [](\A i \in 1..Len(enqueued) :
            enqueued[i].kind \in CallbackKinds =>
                \E j \in 1..Len(wire) : wire[j] = enqueued[i])
    /\ [](DrainedUpTo(Len(returned)) \o queued = enqueued)
    /\ [](\A i \in 1..Len(enqueued) :
            TimesReturned(enqueued[i], Len(returned)) <= 1)
    /\ [][returned' # returned =>
              /\ Drained(Last(returned').pkts) = queued
              /\ queued' = <<>>]_vars
    /\ [][(queued' # queued /\ returned' = returned) =>
              /\ queued' = Append(queued, fd)
              /\ wire # <<>> /\ Last(wire) = fd]_vars

\* a _latest packet built before the first frame was published (it delegates
\* to the sentinel prefix) whose push came after the drain of that frame's
\* call: it is in the batch of the second call
C14_Witness ==
    /\ Len(returned) = 2 /\ returned[1].type # "Dropped"
    /\ \E x \in 1..Len(returned[2].pkts) :
        /\ returned[2].pkts[x].kind = "latest"
        /\ returned[2].pkts[x].deleg[1][2] = Append(StreamPrefix, SeqNo(SeqSentinel))
        /\ \E j \in 1..Len(wire) : wire[j] = returned[2].pkts[x]

-----------------------------------------------------------------------------
(* C15: freshness periods *)

\* the freshness plan: sample = 1000 / fps, key_sample = gop = gop_len * sample
PlanSample == 1000 \div settings.fps
PlanGop == settings.gop * PlanSample

\* the planned freshness of packet d of a frame of type t
PlannedFreshness(d, t) ==
    CASE d.kind \in {"data", "parity", "frame_meta"} ->
            (IF t = "Key" THEN PlanGop ELSE PlanSample)
      [] d.kind \in {"gop_end", "gop_start"} -> PlanGop
      [] d.kind = "latest" -> PlanSample
      [] d.kind = "live" -> PlanGop
      [] d.kind = "stream_meta" -> 4000
      [] OTHER -> d.fresh

\* C15: for every frame rate and GoP length, every returned packet and every
\* packet put on the face carries the freshness of the plan: key_sample on the
\* data segments, parity segments and frame meta of a key frame, sample on
\* those of a delta frame, gop on GoP pointers and _live, sample on _latest,
\* 4000 on the stream meta.
C15_FreshnessPlan ==
    /\ \A i \in 1..Len(returned) : \A x \in 1..Len(returned[i].pkts) :
        returned[i].pkts[x].fresh = PlannedFreshness(returned[i].pkts[x], returned[i].type)
    /\ \A x \in 1..Len(wire) : wire[x].fresh = PlannedFreshness(wire[x], "")

-----------------------------------------------------------------------------
(* C16: the first batch of a stream, for a key frame of 64 KB *)

\* number of payload bytes of the data segments of a batch
RECURSIVE PayloadBytes(_)
PayloadBytes(segs) ==
    IF Len(segs) = 0 THEN 0
    ELSE Len(segs[1].content) + PayloadBytes(SubSeq(segs, 2, Len(segs)))

\* the first processImage call has published a key frame of L bytes
FirstKeyFrame(L) ==
    /\ FramePublished /\ Len(returned) = 0 /\ frame.type = "Key"
    /\ settings.segmentSize = 8000 /\ settings.useFec
    /\ Len(frame.data) = L

\* the first processImage call has returned the batch of a key frame of L bytes
FirstKeyBatch(L) ==
    /\ pc = "idle" /\ Len(returned) = 1 /\ returned[1].type = "Key"
    /\ settings.segmentSize = 8000 /\ settings.useFec
    /\ PayloadBytes(OfKind(returned[1].pkts, "data")) = L

\* nData data segments, the last one of lastSize bytes, 2 parity segments, a
\* manifest and a frame meta
FrameShape(b, nData, lastSize) ==
    /\ CountKind(b, "data") = nData
    /\ Len(Last(OfKind(b, "data")).content) = lastSize
    /\ CountKind(b, "parity") = 2
    /\ CountKind(b, "manifest") = 1
    /\ CountKind(b, "frame_meta") = 1

\* the packets of the frame, the start pointer of GoP 1 and the stream meta,
\* nData + 6 packets, and no end pointer
FirstBatchShape(b, nData, lastSize) ==
    /\ FrameShape(b, nData, lastSize)
    /\ CountKind(b, "gop_start") = 1
    /\ OfKind(b, "gop_start")[1].name = Append(GopPrefixOf(1), Lit("start"))
    /\ CountKind(b, "stream_meta") = 1
    /\ CountKind(b, "gop_end") = 0
    /\ Len(b) = nData + 6

\* C16 as stated: when the first processImage call of a stream encodes a key
\* frame of 64 KB (65536 bytes) with segment_size 8000 and FEC, the frame is
\* published as 8 data segments, the last of 4096 bytes, 2 parity segments, a
\* manifest and a frame meta, and the returned batch holds these, the start
\* pointer of GoP 1 and the stream meta, 14 packets, and no end pointer.
C16_FirstBatchAsStated ==
    /\ FirstKeyFrame(65536) => FrameShape(packets, 8, 4096)
    /\ FirstKeyBatch(65536) => FirstBatchShape(returned[1].pkts, 8, 4096)

\* C16, amended: a key frame of 65536 bytes, encoded by the first processImage
\* call with segment_size 8000 and FEC, is published as 9 data segments, the
\* last of 1536 bytes, 2 parity segments, a manifest and a frame meta; the
\* returned batch holds these, the start pointer of GoP 1 and the stream
\* meta, 15 packets, and no end pointer.  A key frame of 64000 bytes gives 8
\* data segments of 8000 bytes and 14 packets, and one of 60096 bytes gives 8
\* data segments, the last of 4096 bytes, and 14 packets.  A key frame of 4096
\* bytes is published as a single data segment of 4096 bytes with 1 parity
\* segment.
C16_FirstBatch ==
    /\ FirstKeyFrame(4096) =>
           /\ CountKind(packets, "data") = 1
           /\ Len(OfKind(packets, "data")[1].content) = 4096
           /\ CountKind(packets, "parity") = 1
    /\ FirstKeyFrame(65536) => FrameShape(packets, 9, 1536)
    /\ FirstKeyBatch(65536) => FirstBatchShape(returned[1].pkts, 9, 1536)
    /\ FirstKeyBatch(64000) => FirstBatchShape(returned[1].pkts, 8, 8000)
    /\ FirstKeyBatch(60096) => FirstBatchShape(returned[1].pkts, 8, 4096)

\* the first call has published a key frame of 65536 bytes as 9 data segments
\* that carry its 65536 bytes
C16_Witness ==
    /\ FirstKeyFrame(65536)
    /\ CountKind(packets, "data") = 9
    /\ PayloadBytes(OfKind(packets, "data")) = 65536

-----------------------------------------------------------------------------
(* C17: the GoP roll *)

\* gop + 1 frames have been returned, the last one a key frame and the frames
\* between the first and the last delta frames; the first was of type t
Rolled(t) ==
    /\ settings.gop = 30
    /\ Len(returned) = 31
    /\ returned[1].type = t
    /\ \A i \in 2..30 : returned[i].type = "Delta"
    /\ returned[31].type = "Key"

\* batch b holds a pointer of this kind and name that delegates to frame f
HasPointer(b, kind, name, f) ==
    \E x \in 1..Len(b) :
        /\ b[x].kind = kind /\ b[x].name = name
        /\ b[x].deleg = <<<<0, FramePrefixOf(f)>>>>

\* C17 as stated: on a fresh publisher with gop = 30, after 30 frames encoded
\* as delta frames and one encoded as a key frame, the batch of the 31st frame
\* holds the end pointer of GoP 1, delegating to frame 30, and the start
\* pointer of GoP 2, delegating to frame 31 (the 30th and 31st frame, whether
\* frames are counted from 0 or from 1).
C17_GopRollAsStated ==
    Rolled("Delta") =>
        /\ \E f \in {29, 30} :
            HasPointer(returned[31].pkts, "gop_end", Append(GopPrefixOf(1), Lit("end")), f)
        /\ \E f \in {30, 31} :
            HasPointer(returned[31].pkts, "gop_start", Append(GopPrefixOf(2), Lit("start")), f)

\* C17, amended: on a fresh publisher with gop = 30, after a frame encoded as
\* a key frame, 29 encoded as delta frames and one more encoded as a key
\* frame, the batch of the 31st frame holds the end pointer of GoP 1,
\* delegating to the 30th frame (sequence number 29), and the start pointer of
\* GoP 2, delegating to the 31st frame (sequence number 30), and no other
\* GoP pointer.  When all of the first 30 frames are delta frames, the batch of
\* the 31st holds one GoP pointer, the start pointer of GoP 1, delegating to
\* the 31st frame.
C17_GopRoll ==
    /\ Rolled("Key") =>
        /\ HasPointer(returned[31].pkts, "gop_end", Append(GopPrefixOf(1), Lit("end")), 29)
        /\ HasPointer(returned[31].pkts, "gop_start", Append(GopPrefixOf(2), Lit("start")), 30)
        /\ CountKind(returned[31].pkts, "gop_end") = 1
        /\ CountKind(returned[31].pkts, "gop_start") = 1
    /\ Rolled("Delta") =>
        /\ HasPointer(returned[31].pkts, "gop_start", Append(GopPrefixOf(1), Lit("start")), 30)
        /\ CountKind(returned[31].pkts, "gop_end") = 0
        /\ CountKind(returned[31].pkts, "gop_start") = 1

\* a key frame, 29 delta frames and a key frame have been returned
C17_Witness == Rolled("Key") /\ pc = "idle" /\ gopSeq = 2 /\ frameSeq = 31

-----------------------------------------------------------------------------
(* C18: the sentinel frame prefix *)

\* stream_prefix / (uint64)-1
SentinelPrefix == Append(StreamPrefix, SeqNo(0 - 1))

\* the packets of a frame: their names start with the frame's prefix
FrameKinds == {"data", "parity", "manifest", "frame_meta"}

\* C18: a _latest callback that reads last_frame_prefix before any frame has
\* been published puts the sentinel prefix stream_prefix/(uint64)-1 in entry 0
\* of its packet; every packet of a published frame is named under a prefix
\* stream_prefix/n with n >= 0, never under the sentinel; and
\* last_frame_prefix is the sentinel until a frame is published, changes only
\* in the step that publishes a frame, and is never the sentinel again.
C18_Sentinel ==
    /\ [][(fpc = "latest0" /\ fpc' = "latest1" /\ frameSeq = 0) =>
              fd'.deleg = <<<<0, SentinelPrefix>>>>]_vars
    /\ [](\A i \in 1..Len(returned) : \A x \in 1..Len(returned[i].pkts) :
            LET d == returned[i].pkts[x]
            IN d.kind \in FrameKinds =>
                /\ SubSeq(d.name, 1, Len(StreamPrefix)) = StreamPrefix
                /\ d.name[Len(StreamPrefix) + 1][1] = "seq"
                /\ d.name[Len(StreamPrefix) + 1][2] >= 0
                /\ SubSeq(d.name, 1, Len(StreamPrefix) + 1) # SentinelPrefix)
    /\ [](lastFramePrefix = SentinelPrefix <=> frameSeq = 0)
    /\ [][lastFramePrefix' # lastFramePrefix =>
              /\ pc = "advance" /\ frame.type \in {"Key", "Delta"}
              /\ lastFramePrefix' = FramePrefixOf(frameSeq)
              /\ frameSeq' = frameSeq + 1]_vars

\* a _latest packet that delegates to the sentinel has been put on the face,
\* and a frame has been published since
C18_Witness ==
    /\ \E j \in 1..Len(wire) :
        /\ wire[j].kind = "latest"
        /\ wire[j].deleg[1] = <<0, SentinelPrefix>>
    /\ frameSeq = 1 /\ lastFramePrefix = FramePrefixOf(0)
    /\ Len(returned) = 1

-----------------------------------------------------------------------------
(* C19: the memory content cache *)

RECURSIVE BatchesUpTo(_)
BatchesUpTo(i) ==
    IF i = 0 THEN <<>> ELSE BatchesUpTo(i - 1) \o returned[i].pkts

\* C19: with store_in_mem_cache, the packets a processImage call adds to the
\* cache are the packets of the batch it returns, in batch order; nothing else
\* adds to the cache, so a reactive packet is in the cache only after the
\* return of the call that drained it, which comes after its put on the face;
\* without store_in_mem_cache the cache is given nothing.
C19_CacheMirrorsBatches ==
    /\ [][returned' # returned =>
              cache' = (IF settings.storeInMemCache
                        THEN cache \o Last(returned').pkts ELSE cache)]_vars
    /\ [][cache' # cache => (pc = "tail" /\ pc' = "idle" /\ returned' # returned)]_vars
    /\ [](cache = (IF settings.storeInMemCache THEN BatchesUpTo(Len(returned)) ELSE <<>>))
    /\ [](\A x \in 1..Len(cache) :
            cache[x].kind \in CallbackKinds =>
                /\ \E j \in 1..Len(wire) : wire[j] = cache[x]
                /\ \E i \in 1..Len(enqueued) : enqueued[i] = cache[x])
    /\ [][wire' # wire => cache' = cache]_vars

\* with store_in_mem_cache, two calls have returned and the cache holds the
\* reply of a reactive request that the second call drained
C19_Witness ==
    /\ settings.storeInMemCache /\ Len(returned) = 2
    /\ Len(returned[1].pkts) > 1
    /\ CountKind(returned[1].pkts, "live") = 0
    /\ CountKind(returned[2].pkts, "live") = 1
    /\ Last(cache).kind = "live"

-----------------------------------------------------------------------------
(* C20: the state the two threads share *)

\* C20: queued_ is the only field that one thread writes and the other
\* accesses: the callbacks read no field that processImage writes, so the
\* packet a callback builds is the one it builds on a publisher on which
\* processImage has never run: a _latest packet delegates to the sentinel
\* prefix and to the empty GoP prefix, a _live packet carries the timestamp 0
\* and no rate or segment-number sample, and both are named with the publish
\* time the publisher was constructed with.
C20_OnlyQueuedShared ==
    \A j \in 1..Len(wire) :
        /\ wire[j].kind = "latest" =>
                wire[j].deleg = <<<<0, SentinelPrefix>>, <<1, EmptyName>>>>
        /\ wire[j].kind = "live" =>
                wire[j].content = <<0>> /\ wire[j].live = NoLive
        /\ Last(wire[j].name)[2] \in Uninit

-----------------------------------------------------------------------------
(* C21: queued_ and the internal mutex *)

\* C21: every access of queued_ (the push-back of a reactive callback, and
\* the emptiness test, the copy and the clear at the tail of processImage) is
\* made by a thread that holds internalMutex_, so the two threads are never
\* both about to access queued_.
C21_QueueAccessLocked ==
    /\ CaptureAccess => internalMutex = "capture"
    /\ FaceAccess => internalMutex = "face"
    /\ ~(CaptureAccess /\ FaceAccess)

-----------------------------------------------------------------------------
(* C22..C24: what _latest and the frame metas say about the GoP *)

\* (lastFramePrefix_, lastGopPrefix_) as they stand after i processImage calls
\* (i = 0: as constructed)
SnapshotAfter(i) ==
    LET e == EncodedBefore(i + 1)
        k == KeysBefore(i + 1)
    IN <<IF e = 0 THEN SentinelPrefix ELSE FramePrefixOf(e - 1),
         IF k = 0 THEN EmptyName ELSE GopPrefixOf(k - 1)>>

\* C22: whatever the interleaving of its callback with processImage, the two
\* entries of a _latest packet are last_frame_prefix and last_gop_prefix as
\* they stood together at construction or at the end of one encode cycle,
\* never the GoP prefix of one cycle with the frame prefix of the cycle
\* before.  (Stated once every call begun has returned, so that the cycle a
\* callback overlapped counts among the cycles.)
C22_LatestSnapshot ==
    pc = "idle" =>
        \A j \in 1..Len(wire) :
            wire[j].kind = "latest" =>
                \E i \in 0..Len(returned) :
                    <<wire[j].deleg[1][2], wire[j].deleg[2][2]>> = SnapshotAfter(i)

\* the start pointer published last
LastGopStart == Last(OfKind(BatchesUpTo(Len(returned)), "gop_start"))

\* C23: once a key frame has been published with the start pointer
\* gop_prefix/n/start, and until the next key frame, entry 1 of every _latest
\* packet is gop_prefix/n, the prefix under which that start pointer is named.
\* (Stated for callbacks that run from entry to signature between two calls.)
C23_LatestGopIndex ==
    (/\ fpc = "enqueue" /\ fd.kind = "latest"
     /\ pc = "idle" /\ fstart = CaptureStamp
     /\ KeysBefore(Len(returned) + 1) > 0) =>
        fd.deleg[2] = <<1, GetPrefix1(LastGopStart.name)>>

\* the gop_number of the frame meta of batch i
GopNumberOf(i) == OfKind(returned[i].pkts, "frame_meta")[1].meta.gopNumber

\* the number n in the name gop_prefix/n/start of the start pointer of batch i
StartIndexOf(i) ==
    LET name == OfKind(returned[i].pkts, "gop_start")[1].name
    IN name[Len(name) - 1][2]

\* C24: the gop_number in the frame meta of a key frame is the index n of the
\* start pointer gop_prefix/n/start published with it, and it is the
\* gop_number in the frame metas of the delta frames that follow up to the
\* next key frame.
C24_GopNumber ==
    \A i \in 1..Len(returned) :
        returned[i].type = "Key" =>
            /\ GopNumberOf(i) = StartIndexOf(i)
            /\ \A j \in (i + 1)..Len(returned) :
                (/\ returned[j].type = "Delta"
                 /\ \A m \in (i + 1)..j : returned[m].type # "Key") =>
                    GopNumberOf(j) = GopNumberOf(i)

-----------------------------------------------------------------------------
(* C25: the scope of the internal mutex *)

\* C25: internalMutex_ is held only by a thread that is about to mutate
\* queued_ (the copy-and-clear of processImage, the push-back of a callback);
\* the thread that takes a step that encodes, signs or puts a packet on the
\* face does not hold it;
\* a thread that is about to acquire it does not hold it; and a thread that
\* waits for it gets it.
C25_MutexScope ==
    /\ [](internalMutex = "capture" => pc = "drain")
    /\ [](internalMutex = "face" => fpc = "push")
    /\ [][(pc \in {"idle", "gop"} /\ pc' # pc) =>
              (internalMutex # "capture" /\ internalMutex' # "capture")]_vars
    /\ [][(wire' # wire \/ (fd' # fd /\ fpc' # "idle")) =>
              (internalMutex # "face" /\ internalMutex' # "face")]_vars
    /\ [](pc = "lock" => internalMutex # "capture")
    /\ [](fpc = "enqueue" => internalMutex # "face")
    /\ (pc = "lock") ~> (pc = "drain")
    /\ (fpc = "enqueue") ~> (fpc = "push")

\* the capture thread waits at its lock_guard while the face thread, inside
\* push_back, holds the mutex
C25_Witness == pc = "lock" /\ internalMutex = "face" /\ fpc = "push"

-----------------------------------------------------------------------------
(* C26: timestamps *)

\* the capture timestamp in the frame meta of batch i
CaptureOf(i) == OfKind(returned[i].pkts, "frame_meta")[1].meta.capture

\* order of protobuf Timestamps <<seconds, nanos>>
TsLeq(a, b) == a[1] < b[1] \/ (a[1] = b[1] /\ a[2] <= b[2])

\* C26: this_cycle_monotonic_ns is written only by the step that begins a
\* processImage call; the frame meta published by a call carries that value
\* as its capture timestamp (seconds and nanoseconds); the capture timestamps
\* of successively published frames are non-decreasing; and after every
\* return, of an encoded or of a dropped call, last_cycle_monotonic_ns equals
\* this_cycle_monotonic_ns.
C26_Timestamps ==
    /\ [][thisCycleMonotonicNs' # thisCycleMonotonicNs => (pc = "idle" /\ pc' # "idle")]_vars
    /\ [](FramePublished =>
            LET c == OfKind(packets, "frame_meta")[1].meta.capture
            IN c[1] * NsPerSec + c[2] = thisCycleMonotonicNs /\ c[2] \in 0..(NsPerSec - 1))
    /\ [](\A i, j \in 1..Len(returned) :
            (i < j /\ returned[i].type # "Dropped" /\ returned[j].type # "Dropped") =>
                TsLeq(CaptureOf(i), CaptureOf(j)))
    /\ [][returned' # returned => lastCycleMonotonicNs' = thisCycleMonotonicNs']_vars
    /\ [](pc = "idle" => lastCycleMonotonicNs = thisCycleMonotonicNs)

\* two frames published in different seconds, the later one with the smaller
\* nanoseconds part, and a dropped call after them that moved both cycle
\* timestamps past the last capture timestamp
C26_Witness ==
    /\ pc = "idle" /\ Len(returned) = 3
    /\ returned[1].type # "Dropped" /\ returned[2].type # "Dropped"
    /\ returned[3].type = "Dropped"
    /\ CaptureOf(1)[1] < CaptureOf(2)[1] /\ CaptureOf(1)[2] > CaptureOf(2)[2]
    /\ lastCycleMonotonicNs > CaptureOf(2)[1] * NsPerSec + CaptureOf(2)[2]

-----------------------------------------------------------------------------
(* C27, C28: positions and frame names *)

\* the frame meta of batch i, and the sequence number in its name
\* stream_prefix/n/_meta
FrameMetaOf(i) == OfKind(returned[i].pkts, "frame_meta")[1]
FrameNumberOf(i) == FrameMetaOf(i).name[Len(FrameMetaOf(i).name) - 1][2]

\* C27: gop_pos goes up by 1 with every published frame, key frames
\* included, and changes in no other step, so that between cycles it equals
\* frame_seq; the frame meta of the frame with sequence number n records
\* gop_position n.
C27_GopPosition ==
    /\ [][gopPos' # gopPos =>
              /\ gopPos' = gopPos + 1
              /\ frameSeq' = frameSeq + 1
              /\ frame.type \in {"Key", "Delta"}]_vars
    /\ [][frameSeq' # frameSeq => gopPos' = gopPos + 1]_vars
    /\ [](pc = "idle" => gopPos = frameSeq)
    /\ [](\A i \in 1..Len(returned) :
            returned[i].type # "Dropped" =>
                /\ FrameMetaOf(i).meta.gopPosition = FrameNumberOf(i)
                /\ FrameNumberOf(i) = EncodedBefore(i))

\* a key frame, a delta frame and a second key frame, whose meta records
\* position 2
C27_Witness ==
    /\ pc = "idle" /\ Len(returned) = 3
    /\ returned[1].type = "Key" /\ returned[2].type = "Delta" /\ returned[3].type = "Key"
    /\ FrameMetaOf(3).meta.gopPosition = 2
    /\ gopPos = 3 /\ gopSeq = 2

\* the first components of a name: stream_prefix/n for a packet of frame n
FramePrefixIn(name) == SubSeq(name, 1, Len(StreamPrefix) + 1)

\* C28: every packet of a frame is named under stream_prefix/frame_seq, with
\* the value frame_seq has while the frame is published (the number of
\* frames published before it); between cycles last_frame_prefix is
\* stream_prefix/sentinel if no frame has been published and otherwise
\* stream_prefix/(frame_seq - 1), the prefix of the frame published last.
C28_FrameNames ==
    /\ (FramePublished /\ pc \in {"gop", "advance"}) =>
            /\ framePrefix = FramePrefixOf(frameSeq)
            /\ \A x \in 1..Len(packets) :
                packets[x].kind \in FrameKinds =>
                    FramePrefixIn(packets[x].name) = FramePrefixOf(frameSeq)
    /\ \A i \in 1..Len(returned) : \A x \in 1..Len(returned[i].pkts) :
            returned[i].pkts[x].kind \in FrameKinds =>
                FramePrefixIn(returned[i].pkts[x].name) = FramePrefixOf(EncodedBefore(i))
    /\ pc = "idle" =>
            lastFramePrefix = (IF frameSeq = 0 THEN SentinelPrefix
                               ELSE FramePrefixOf(frameSeq - 1))

\* two frames have been published, with a dropped call between them
C28_Witness ==
    /\ pc = "idle" /\ Len(returned) = 3
    /\ returned[1].type # "Dropped" /\ returned[2].type = "Dropped"
    /\ returned[3].type # "Dropped"
    /\ frameSeq = 2 /\ lastFramePrefix = FramePrefixOf(1)

-----------------------------------------------------------------------------
(* C29: the generation delay *)

-----------------------------------------------------------------------------
(* C30: errors in the reactive callbacks *)

\* C30: an error raised while a reactive callback builds, signs or sends its
\* packet stays inside the callback: no exception leaves a callback for the
\* face thread, and the request that failed leaves queued_ as it was.
C30_CallbackSwallowsErrors ==
    /\ [](faceRaised = 0)
    /\ [][(fpc \in {"latest1", "live1"} /\ fpc' = "idle") => queued' = queued]_vars

-----------------------------------------------------------------------------
(* C31: packet names *)

\* the names of the packets returned so far, in return order
ReturnedNames == [x \in 1..Len(BatchesUpTo(Len(returned))) |-> BatchesUpTo(Len(returned))[x].name]

\* C31: the names of the packets of all the batches returned so far are
\* pairwise distinct, within a batch and across batches; two _latest packets
\* (or two _live packets) built between the same two encode cycles have
\* different names.
C31_DistinctNames ==
    \A x, y \in 1..Len(ReturnedNames) : x # y => ReturnedNames[x] # ReturnedNames[y]

-----------------------------------------------------------------------------
(* C32: the interest filters and the life of the publisher *)

\* C32: the filters for stream_prefix/_live and stream_prefix/_latest are
\* installed at construction exactly when a memory content cache is attached;
\* the destructor removes them, and no reactive callback is invoked on a
\* publisher that has been destroyed.
C32_FilterLifetime ==
    /\ (~destroyed) => (filters = IF settings.memCache THEN {"_live", "_latest"} ELSE {})
    /\ destroyed => filters = {}
    /\ staleCalls = 0

-----------------------------------------------------------------------------
(* C33: the destruction of a started Consumer *)

\* C33: the destruction of a Consumer that has been started and not stopped
\* since runs stop(): the pipeliner, the playout and the renderer are stopped
\* when the Consumer is destroyed.
C33_DestructorStops ==
    /\ [][(consumer # "destroyed" /\ consumer' = "destroyed" /\ pipelinerStarted) =>
              stopRuns' = stopRuns + 1]_vars
    /\ [](consumer = "destroyed" =>
            (~pipelinerStarted /\ ~playoutRunning /\ ~rendering))

====
